---- MODULE Spec2Model ----
(***************************************************************************)
(* Summary generation engine of work-record                                *)
(* (src-tauri/src/summary.rs): SummaryGenerator.generate_summary, the      *)
(* blocking entry point, and generate_summary_with_stream, the streaming   *)
(* entry point, with the local (Ollama) and the remote provider branches,  *)
(* the SSE decoding loop of generate_with_external_api_stream and the      *)
(* file persistence.                                                       *)
(*                                                                         *)
(* Text is modelled as a sequence of characters, a response buffer as a    *)
(* sequence of tokens (a token is an indivisible piece of the byte         *)
(* stream), so that concatenation, line splitting and JSON parsing are     *)
(* computed and not assumed.                                               *)
(***************************************************************************)
EXTENDS Integers, Sequences, FiniteSets, TLC

\* ------------------------------------------------------------------ bounds

\* Lines of a response body in a run of the whole engine (Spec).
MaxEngineLines == 1

\* Lines of a response body in a run of the remote streaming path (SpecStream).
MaxLines == 2

\* Buffers the HTTP body of one response arrives in.
MaxBuffers == 2

MaxCalls == 2

\* The chunk events followed from one start event on.
MaxChunks == 3

\* The backend calls the log files panel awaits at once.
MaxLoads == 2

\* The invoke promises that can be unsettled at once, and the submits counted
\* between two outcomes.
MaxOpen == 2

\* ------------------------------------------------------------- text helpers

\* Option<T> is a sequence of length 0 (None) or 1 (Some(x)).
None == <<>>

Some(x) == <<x>>

RECURSIVE Concat(_)
\* The in-order concatenation of a sequence of texts (String::push_str repeated).
Concat(ss) == IF ss = <<>> THEN <<>> ELSE Head(ss) \o Concat(Tail(ss))

\* The texts a provider generates.
TextA == <<"A">>

TextBC == <<"B", "C">>

Texts == {TextA, TextBC}

\* A response body that is no JSON document, and one without the content field.
NotJson == <<"not json">>

NoContent == <<"{}">>

\* --------------------------------------------------------- the SSE byte stream

\* Tokens of the response body.
NL == "\n"

DataPrefix == "data: "

DoneMarker == "[DONE]"

OpenBrace == "{"

CloseBrace == "}"

\* Members of a JSON object, each an indivisible token between the braces.
OpenAiA == "\"choices\":[{\"delta\":{\"content\":\"A\"}}]"

DashscopeBC == "\"output\":{\"choices\":[{\"text\":\"BC\"}]}"

OtherShape == "\"id\":\"chatcmpl-1\""

KeepAlive == ": keep-alive"

JsonMembers == {OpenAiA, DashscopeBC, OtherShape}

\* Frames no provider is known to send, which the loop decodes all the same: a
\* "choices" key without a content string beside a Dashscope text, both texts in
\* one object, and a content that is no string.
EmptyChoicesAndOutput == "\"choices\":[],\"output\":{\"choices\":[{\"text\":\"BC\"}]}"

BothTexts == "\"choices\":[{\"delta\":{\"content\":\"A\"}}],\"output\":{\"choices\":[{\"text\":\"BC\"}]}"

NullContent == "\"choices\":[{\"delta\":{\"content\":null}}]"

MixedMembers == {EmptyChoicesAndOutput, BothTexts, NullContent}

\* A JSON value as serde_json sees it: the string at choices[0].delta.content and
\* the string at output.choices[0].text, each an Option; hasChoices and hasOutput
\* say whether the top-level key exists at all.
JsonValue(m) ==
    CASE m = OpenAiA     -> [hasChoices |-> TRUE,  content |-> Some(TextA),
                             hasOutput  |-> FALSE, text    |-> None]
      [] m = DashscopeBC -> [hasChoices |-> FALSE, content |-> None,
                             hasOutput  |-> TRUE,  text    |-> Some(TextBC)]
      [] m = EmptyChoicesAndOutput ->
                            [hasChoices |-> TRUE,  content |-> None,
                             hasOutput  |-> TRUE,  text    |-> Some(TextBC)]
      [] m = BothTexts   -> [hasChoices |-> TRUE,  content |-> Some(TextA),
                             hasOutput  |-> TRUE,  text    |-> Some(TextBC)]
      [] m = NullContent -> [hasChoices |-> TRUE,  content |-> None,
                             hasOutput  |-> FALSE, text    |-> None]
      [] OTHER           -> [hasChoices |-> FALSE, content |-> None,
                             hasOutput  |-> FALSE, text    |-> None]

\* serde_json::from_str::<Value>(data): Some(value) when data is one complete JSON
\* object, None (the Err branch) otherwise.
ParseJson(data) ==
    IF /\ Len(data) = 3
       /\ data[1] = OpenBrace
       /\ data[2] \in JsonMembers \cup MixedMembers
       /\ data[3] = CloseBrace
    THEN Some(JsonValue(data[2]))
    ELSE None

\* The if-let chains of the decoding loop: the OpenAI shape first, the Dashscope
\* shape only when the value has no "choices" key. The result is the Option of
\* the text that is pushed to result and handed to the callback.
ExtractContent(json) ==
    IF json.hasChoices THEN json.content
    ELSE IF json.hasOutput THEN json.text
    ELSE None

\* One line of a chunk: the delta it yields, as an Option.
DecodeLine(line) ==
    IF line # <<>> /\ Head(line) = DataPrefix
    THEN LET data == Tail(line)
         IN  IF data = <<DoneMarker>> THEN None
             ELSE LET parsed == ParseJson(data)
                  IN  IF parsed # None THEN ExtractContent(parsed[1]) ELSE None
    ELSE None

RECURSIVE SplitLines(_, _)
\* str::lines(): the chunk cut at every line feed; a last line without a line feed
\* is a line too, and no empty line follows a final line feed.
SplitLines(chunk, acc) ==
    IF chunk = <<>> THEN (IF acc = <<>> THEN <<>> ELSE <<acc>>)
    ELSE IF Head(chunk) = NL THEN <<acc>> \o SplitLines(Tail(chunk), <<>>)
    ELSE SplitLines(Tail(chunk), Append(acc, Head(chunk)))

Lines(chunk) == SplitLines(chunk, <<>>)

\* The lines a server sends, each ended by a line feed.
FrameOf(m) == <<DataPrefix, OpenBrace, m, CloseBrace, NL>>

DoneFrame == <<DataPrefix, DoneMarker, NL>>

TruncatedFrame == <<DataPrefix, OpenBrace, OpenAiA, NL>>

CommentLine == <<KeepAlive, NL>>

WireLines == {FrameOf(m) : m \in JsonMembers} \cup {DoneFrame, TruncatedFrame, CommentLine}

RECURSIVE BodiesOf(_)
\* The response bodies of at most n lines, as token sequences.
BodiesOf(n) ==
    IF n = 0 THEN {<<>>}
    ELSE LET shorter == BodiesOf(n - 1)
         IN  shorter \cup {b \o l : b \in shorter, l \in WireLines}

\* ------------------------------------------------------- requests and settings

SummaryTypes == {"Weekly", "Monthly", "Quarterly", "Custom"}

\* chrono dates; Local::now() yields one of them.
Dates == {[year |-> 2024, month |-> 3, day |-> 31], [year |-> 2025, month |-> 10, day |-> 1]}

CustomDate == [year |-> 2024, month |-> 2, day |-> 29]

\* The keys of the logs argument (dates) and the contents of its entries.
LogDays ==
    {[year |-> 2024, month |-> 12, day |-> 30], [year |-> 2024, month |-> 12, day |-> 31],
     [year |-> 2025, month |-> 1, day |-> 1]}

EntryLists == {<<>>, <<"fixed a bug">>, <<"fixed a bug", "wrote the docs">>}

\* HashMap<String, Vec<LogEntry>>: any entries under any of the dates.
LogMaps == UNION {[S -> EntryLists] : S \in SUBSET LogDays}

\* The logs of the runs whose subject is not the corpus: one date, one entry.
EngineLogs == [d \in {[year |-> 2024, month |-> 12, day |-> 30]} |-> <<"fixed a bug">>]

Title == "report"

\* SummaryConfig values: the non-custom kinds without dates, Custom with both
\* dates, with the end date missing and with both missing.
Requests ==
    {[summary_type |-> k, start_date |-> None, end_date |-> None, title |-> Title] :
        k \in SummaryTypes}
    \cup {[summary_type |-> "Custom", start_date |-> Some(CustomDate), end_date |-> e,
           title |-> Title] : e \in {None, Some(CustomDate)}}

OpenAiUrl == "https://api.openai.com/v1/chat/completions"

DashscopeUrl == "https://dashscope.aliyuncs.com/compatible-mode/v1/chat/completions"

\* Settings values the generator is constructed with.
SettingsSet ==
    {[use_local_ollama |-> l, llm_api_url |-> u[1], llm_api_key |-> u[2],
      log_output_dir |-> "summaries", doc_dir |-> d] :
        l \in BOOLEAN,
        u \in {<<"", "">>, <<OpenAiUrl, "sk-key">>, <<DashscopeUrl, "sk-key">>},
        d \in {None, Some("docs")}}

\* The two entry points: generate_summary and generate_summary_with_stream.
Modes == {"blocking", "stream"}

\* HTTP statuses an endpoint answers with.
Statuses == {200, 400, 401, 403, 404, 429, 500}

IsSuccess(code) == code >= 200 /\ code <= 299

\* Failures of RequestBuilder::send, by what is_timeout and is_connect report.
SendFailures == [is_timeout : BOOLEAN, is_connect : BOOLEAN]

\* ------------------------------------------------------------------- state

VARIABLES
    pc,         \* where the invocation is
    mode,       \* the entry point that was called
    calls,      \* how many times an entry point was called on this generator
    settings,   \* self.settings
    logs,       \* the logs argument: date -> entries
    config,     \* the SummaryConfig argument
    prompt,     \* the prompt built for the provider
    logs_content,   \* the logs merged into one string (logs_content / logs_str)
    branches,   \* the provider functions called so far, in order
    requests,   \* the HTTP requests sent so far, in order
    status,     \* the HTTP status of the response, 0 before there is one
    net,        \* what the network did last for this invocation
    send_error, \* Some(e) once send() has failed with the reqwest::Error e
    wire,       \* the part of the response body not yet arrived
    received,   \* the buffers stream.next() has yielded, in order
    lines,      \* the lines of the current chunk not yet handled
    cur,        \* Some(delta) between result.push_str and progress_callback
    result,     \* the result String of generate_with_external_api_stream
    summary,    \* the summary String of the local and blocking paths
    segments,   \* the progress segments of the local streaming path still to send
    sink,       \* the arguments progress_callback was called with, in order
    files,      \* the file system: path -> content
    writes,     \* the fs::write calls that succeeded, in order
    disk,       \* what the file system answered to the last call made to it
    ret,        \* the value the entry point returned
    \* two invocations of the streaming remote call running at once
    runs,       \* invocation -> its local variables
    \* the summary panel (LogSummaryPanel)
    today,      \* the date new Date() yields
    connected,  \* connectedCallback has run
    summaryType,    \* this.summaryType
    startDate,  \* this.startDate
    endDate,    \* this.endDate
    summaryTitle,   \* this.summaryTitle
    invoked,    \* the params of the latest invoke('generate_summary', params)
    \* the summary panel and the summary-generation-* events
    currentSummary,         \* this.currentSummary
    eventListenersActive,   \* this.eventListenersActive
    handlers,   \* how many times the five handlers of this instance are registered
    disabled,   \* the generate button has the disabled attribute
    open,       \* the invoke('generate_summary') promises not yet settled
    started,    \* history: a summary-generation-start event was handled
    chunks,     \* history: the chunk payloads handled since the latest start event
    pending,    \* history: the submits since the latest complete, error or rejection
    \* the log files panel (LogFilesPanel) and the log store behind it
    filesConnected, \* its connectedCallback has run
    listing,    \* an invoke('get_log_files') is awaited
    logFiles,   \* this.logFiles
    currentFile,    \* this.currentFile
    logEntries, \* this.logEntries
    store,      \* the backend: file name -> entries
    loading,    \* file name -> the invoke('get_log_entries') calls awaited for it
    mutation,   \* the delete_log_entry or update_log_entry call awaited, if any
    \* the settings panel (SettingsPanel) and the settings behind it
    settingsConnected,  \* its connectedCallback has run
    loadingSettings,    \* an invoke('get_settings') is awaited
    panelSettings,  \* this.settings
    boxes,      \* the checked state of the two checkboxes of the form
    stored,     \* the backend: the stored settings
    saving,     \* the invoke('update_settings') awaited, with the boxes at submit
    savedBoxes, \* history: the boxes at the submit of the latest successful save
    \* two invocations of generate_summary saving at once
    jobs,       \* invocation -> where it is, its summary and what it returned
    wrote,      \* history: the invocations in the order of their write_all
    \* the theme manager (ThemeManager) and the localStorage behind it
    themeSettings,  \* this.settings
    themeStorage,   \* the item 'themeSettings' of localStorage, parsed
    themeChangeListeners,   \* this.themeChangeListeners, by the component that owns each
    themeCall,  \* history: what the latest setThemeMode or setFontSize call did
    lastSave,   \* history: how the latest localStorage.setItem ended
    toggleRun,  \* history: the modes before the latest toggles in a row, three at most
    \* the layout (MainLayout)
    layoutConnected,    \* it is in the document
    rendered,   \* render has filled the shadow root
    activePage, \* this._activePage
    panelActive,    \* the data-page of the content panels that carry the class active
    navActive   \* the data-page of the navigation items that carry the class active

engineVars == <<pc, calls, mode, settings, logs, config, prompt, logs_content, branches,
                requests, status, net, send_error, wire, received, lines, cur, result,
                summary, segments, sink, files, writes, disk, ret>>

panelVars == <<today, connected, summaryType, startDate, endDate, summaryTitle, invoked>>

streamVars == <<currentSummary, eventListenersActive, handlers, disabled, open, started,
                chunks, pending>>

filesVars == <<filesConnected, listing, logFiles, currentFile, logEntries, store, loading,
               mutation>>

settingsVars == <<settingsConnected, loadingSettings, panelSettings, boxes, stored, saving,
                  savedBoxes>>

jobVars == <<jobs, wrote>>

themeVars == <<themeSettings, themeStorage, themeChangeListeners, themeCall, lastSave,
               toggleRun>>

layoutVars == <<layoutConnected, rendered, activePage, panelActive, navActive>>

vars == <<engineVars, runs, panelVars, streamVars, filesVars, settingsVars, jobVars,
          themeVars, layoutVars>>

\* What a step of the single invocation leaves alone.
outsideEngine == <<runs, panelVars, streamVars, filesVars, settingsVars, jobVars,
        themeVars, layoutVars>>

\* What a step of one of the two concurrent invocations leaves alone.
outsideRuns == <<engineVars, panelVars, streamVars, filesVars, settingsVars, jobVars,
        themeVars, layoutVars>>

\* What a step of the summary panel leaves alone.
outsidePanel == <<engineVars, runs, streamVars, filesVars, settingsVars, jobVars,
        themeVars, layoutVars>>

\* What a step of the summary panel, its form and its event handlers, leaves alone.
outsideSummaryPanel == <<engineVars, runs, filesVars, settingsVars, jobVars,
        themeVars, layoutVars>>

\* What a step of the log files panel leaves alone.
outsideFilesPanel == <<engineVars, runs, panelVars, streamVars, settingsVars, jobVars,
        themeVars, layoutVars>>

\* What a step of the settings panel leaves alone.
outsideSettingsPanel == <<engineVars, runs, panelVars, streamVars, filesVars, jobVars,
        themeVars, layoutVars>>

\* What a step of one of the two invocations that save at once leaves alone: all
\* but the file system and its own variables.
outsideJobs == <<pc, calls, mode, settings, logs, config, prompt, logs_content, branches,
                 requests, status, net, send_error, wire, received, lines, cur, result,
                 summary, segments, sink, writes, disk, ret, runs, panelVars, streamVars,
                 filesVars, settingsVars, themeVars, layoutVars>>

\* What a step of the theme manager leaves alone.
outsideTheme == <<engineVars, runs, panelVars, streamVars, filesVars, settingsVars, jobVars,
                  layoutVars>>

\* What a step of the layout leaves alone, the theme manager apart.
outsideLayout == <<engineVars, runs, panelVars, streamVars, filesVars, settingsVars,
                   jobVars>>

NoReturn == [tag |-> "None", kind |-> "", text |-> <<>>]

Ok(text) == [tag |-> "Ok", kind |-> "", text |-> text]

Err(kind) == [tag |-> "Err", kind |-> kind, text |-> <<>>]

NoFiles == [p \in {} |-> <<>>]

\* The local variables of one of the two concurrent invocations before its call.
Invocations == {"first", "second"}

IdleRun == [pc |-> "Idle", net |-> "idle", wire |-> <<>>, received |-> <<>>,
            lines |-> <<>>, cur |-> None, result |-> <<>>, sink |-> <<>>,
            ret |-> NoReturn]

\* No concurrent invocation was made.
IdleJob == [pc |-> "Idle", summary |-> <<>>, ret |-> NoReturn]

NoRuns ==
    /\ runs = [i \in Invocations |-> IdleRun]
    /\ jobs = [i \in Invocations |-> IdleJob]
    /\ wrote = <<>>

\* The files of the log directory and what they hold when the application starts.
LogFileNames == <<"2024-12-30.json", "2024-12-31.json">>

InitialStore ==
    [f \in {"2024-12-30.json", "2024-12-31.json"} |->
        IF f = "2024-12-30.json" THEN <<"fixed a bug", "wrote the docs">>
        ELSE <<"reviewed code">>]

\* LogFilesPanel after its constructor.
FilesPanelConstructed ==
    /\ filesConnected = FALSE
    /\ listing = FALSE
    /\ logFiles = <<>>
    /\ currentFile = None
    /\ logEntries = <<>>
    /\ store = InitialStore
    /\ loading = [f \in DOMAIN InitialStore |-> 0]
    /\ mutation = None

\* The two settings the form shows as checkboxes.
StoredSettings == [use_local_ollama : BOOLEAN, auto_open_window : BOOLEAN]

Unchecked == [use_local_ollama |-> FALSE, auto_open_window |-> FALSE]

\* SettingsPanel after its constructor, with s stored in the backend.
SettingsPanelConstructed(s) ==
    /\ settingsConnected = FALSE
    /\ loadingSettings = FALSE
    /\ panelSettings = None
    /\ boxes = Unchecked
    /\ stored = s
    /\ saving = None
    /\ savedBoxes = None

\* LogSummaryPanel after its constructor, on a machine whose date is d.
SummaryPanelConstructed(d) ==
    /\ today = d
    /\ connected = FALSE
    /\ summaryType = 0
    /\ startDate = <<>>
    /\ endDate = <<>>
    /\ summaryTitle = <<>>
    /\ invoked = None
    /\ currentSummary = <<>>
    /\ eventListenersActive = FALSE
    /\ handlers = 0
    /\ disabled = FALSE
    /\ open = 0
    /\ started = FALSE
    /\ chunks = <<>>
    /\ pending = 0

\* The themes, in the order of the array of toggleTheme.
themes == <<"dark", "light", "neutral">>

ThemeMode == {themes[i] : i \in DOMAIN themes}

FontSize == {"small", "medium", "large"}

ThemeSettings == [mode : ThemeMode, fontSize : FontSize]

\* getSystemPreferredTheme, prefersDark being what matchMedia answers.
getSystemPreferredTheme(prefersDark) == IF prefersDark THEN "dark" ELSE "light"

\* loadThemeSettings: the saved item if there is one, else the initial value of
\* the field with the theme the system prefers.
loadThemeSettings(savedSettings, prefersDark) ==
    IF savedSettings # None
    THEN savedSettings[1]
    ELSE [mode |-> getSystemPreferredTheme(prefersDark), fontSize |-> "medium"]

\* No setThemeMode or setFontSize call yet.
NoCall ==
    [made |-> FALSE, changed |-> FALSE, listeners |-> <<>>, notified |-> <<>>, saves |-> 0]

\* ThemeManager after its constructor, over what localStorage holds: the settings
\* are loaded and applyTheme notifies the listeners, of which there are none.
ThemeConstructed(savedSettings, prefersDark) ==
    /\ themeStorage = savedSettings
    /\ themeSettings = loadThemeSettings(savedSettings, prefersDark)
    /\ themeChangeListeners = <<>>
    /\ themeCall = NoCall
    /\ lastSave = "none"
    /\ toggleRun = <<>>

\* MainLayout after its constructor: the shadow root is attached and empty.
LayoutConstructed ==
    /\ layoutConnected = FALSE
    /\ rendered = FALSE
    /\ activePage = "log-files"
    /\ panelActive = {}
    /\ navActive = {}

\* The theme manager on a machine that prefers the dark theme and has saved
\* nothing, and the layout.
ShellConstructed ==
    /\ ThemeConstructed(None, TRUE)
    /\ LayoutConstructed

\* The panels of the layout after their constructors, on a machine whose date is
\* d and whose stored settings have no box checked.
PanelConstructed(d) ==
    /\ SummaryPanelConstructed(d)
    /\ FilesPanelConstructed
    /\ SettingsPanelConstructed(Unchecked)
    /\ ShellConstructed

\* SummaryGenerator::new(settings) and the arguments of the call to come.
InitEngine(m, s, c, l) ==
    /\ pc = "Idle"
    /\ calls = 0
    /\ mode = m
    /\ settings = s
    /\ logs = l
    /\ config = c
    /\ prompt = None
    /\ logs_content = <<>>
    /\ disk = "idle"
    /\ branches = <<>>
    /\ requests = <<>>
    /\ status = 0
    /\ net = "idle"
    /\ send_error = None
    /\ wire = <<>>
    /\ received = <<>>
    /\ lines = <<>>
    /\ cur = None
    /\ result = <<>>
    /\ summary = <<>>
    /\ segments = <<>>
    /\ sink = <<>>
    /\ files = NoFiles
    /\ writes = <<>>
    /\ ret = NoReturn

InitWith(m, s, c) ==
    /\ InitEngine(m, s, c, EngineLogs)
    /\ NoRuns
    /\ PanelConstructed(CustomDate)

Init == \E m \in Modes, s \in SettingsSet, c \in Requests : InitWith(m, s, c)

\* ------------------------------------------------------------ pure helpers

\* NaiveDate formatted with "%Y-%m-%d".
FormatDate(d) == <<d.year, "-", d.month, "-", d.day>>

\* A quarter computed without the shift to a 0-based month.
QuarterOfOneBased(month) == month \div 3 + 1

\* (now.month() - 1) / 3 + 1 on u32.
Quarter(month) == (month - 1) \div 3 + 1

\* get_summary_filename with Local::now() = now.
get_summary_filename(c, now) ==
    CASE c.summary_type = "Weekly" ->
            <<"weekly_summary_", FormatDate(now), ".md">>
      [] c.summary_type = "Monthly" ->
            <<"monthly_summary_", now.year, "-", now.month, ".md">>
      [] c.summary_type = "Quarterly" ->
            <<"quarterly_summary_", now.year, "-Q", Quarter(now.month), ".md">>
      [] c.summary_type = "Custom" ->
            LET start == IF c.start_date = None THEN now ELSE c.start_date[1]
                end   == IF c.end_date = None THEN now ELSE c.end_date[1]
            IN  <<"custom_summary_", FormatDate(start), "_", FormatDate(end), ".md">>

\* The orders in which a HashMap with the keys S can be iterated.
Orders(S) ==
    {o \in [1..Cardinality(S) -> S] : \A i, j \in 1..Cardinality(S) : i # j => o[i] # o[j]}

\* A section that is left out when the date has no entry.
DateSectionSkipsEmptyDate(date, entries) ==
    IF entries = <<>> THEN <<>>
    ELSE << <<"## ", FormatDate(date)>> >>
            \o [i \in 1..Len(entries) |-> <<"- ", entries[i]>>]
            \o << <<"">> >>

\* One date of the corpus: "## {date}\n", "- {content}\n" per entry, "\n".
DateSection(date, entries) ==
    << <<"## ", FormatDate(date)>> >>
        \o [i \in 1..Len(entries) |-> <<"- ", entries[i]>>]
        \o << <<"">> >>

\* for (date, entries) in logs.iter(): the sections in the order of the iteration,
\* as lines.
SerializeLogs(l, order) ==
    Concat([i \in 1..Len(order) |-> DateSection(order[i], l[order[i]])])

\* fs::write(path, text): the file is created or replaced.
WriteFileAppends(fs, path, text) ==
    IF path \in DOMAIN fs THEN (path :> fs[path] \o text) @@ fs ELSE (path :> text) @@ fs

WriteFile(fs, path, text) == (path :> text) @@ fs

\* Path::new(dir).join(name).
JoinPath(dir, name) == <<dir, name>>

\* The file the streaming path writes: "{date}-{title}.md" under doc_dir.
StreamFilePath(doc_dir, now, title) == JoinPath(doc_dir, <<FormatDate(now), "-", title, ".md">>)

\* Settings::get_summary_api_type (settings.rs): 0 the local API, selected by
\* use_local_ollama; 2 Dashscope, told by the URL; 1 any other remote API.
get_summary_api_type(s) ==
    IF s.use_local_ollama THEN 0
    ELSE IF s.llm_api_url = DashscopeUrl THEN 2
    ELSE 1

\* The progress strings of the local streaming path.
LocalStartStatus == <<"status: analysing the logs with the local model">>

LocalSegments == << <<"status: generating the summary">>,
                    <<"status: analysing the work">>,
                    <<"status: collecting the key activities">> >>

\* The error the streaming path returns for a response that is not a success.
StreamStatusError(code, api_type) ==
    CASE code = 401 -> "AuthFailed"
      [] code = 403 -> "Forbidden"
      [] code = 404 -> IF api_type = 2 THEN "NotFoundDashscope" ELSE "NotFound"
      [] code = 429 -> "RateLimited"
      [] code >= 500 -> "ServerUnavailable"
      [] OTHER -> "Generic"

\* A classification that asks for a connection failure first.
StreamSendErrorConnectFirst(failure) ==
    IF failure.is_connect THEN "ConnectFailed"
    ELSE IF failure.is_timeout THEN "Timeout"
    ELSE "Transport"

\* The error the send of the streaming path is mapped to.
StreamSendError(failure) ==
    IF failure.is_timeout THEN "Timeout"
    ELSE IF failure.is_connect THEN "ConnectFailed"
    ELSE "Transport"

\* The error the send of the blocking remote path is mapped to.
ExternalSendError(failure) ==
    IF failure.is_timeout THEN "Timeout"
    ELSE IF failure.is_connect THEN "ConnectFailed"
    ELSE "ReqwestError"

\* The error the blocking remote path returns for a response that is not a success.
ExternalStatusError(code, is_dashscope) ==
    IF is_dashscope /\ code = 404 THEN "NotFoundDashscope" ELSE "Generic"

\* ------------------------------------------------------------------ actions

Fail(kind) ==
    /\ pc' = "Failed"
    /\ ret' = Err(kind)

\* The caller invokes one of the two entry points.
Invoke ==
    /\ pc = "Idle"
    /\ pc' = "BuildingPrompt"
    /\ calls' = calls + 1
    /\ UNCHANGED <<mode, settings, logs, config, prompt, logs_content, branches, requests,
                   status, net, wire, received, lines, cur, result, summary, segments, sink,
                   files, writes, disk, ret, send_error, outsideEngine>>

\* The caller invokes generate_summary once more on the same generator after the
\* call before has returned: the locals are new, the file system is as it was left.
InvokeAgain ==
    /\ pc \in {"Done", "Failed"}
    /\ mode = "blocking"
    /\ calls < MaxCalls
    /\ calls' = calls + 1
    /\ pc' = "BuildingPrompt"
    /\ prompt' = None
    /\ logs_content' = <<>>
    /\ branches' = <<>>
    /\ requests' = <<>>
    /\ status' = 0
    /\ net' = "idle"
    /\ send_error' = None
    /\ received' = <<>>
    /\ summary' = <<>>
    /\ disk' = "idle"
    /\ ret' = NoReturn
    /\ UNCHANGED <<mode, settings, logs, config, wire, lines, cur, result, segments, sink,
                   files, writes, outsideEngine>>

\* generate_summary: the logs merged in the order the HashMap iterates, the prompt
\* chosen by the summary type.
BuildPromptBlocking ==
    /\ pc = "BuildingPrompt"
    /\ mode = "blocking"
    /\ \E order \in Orders(DOMAIN logs) : logs_content' = SerializeLogs(logs, order)
    /\ prompt' = Some([system |-> "", user |-> <<config.summary_type>>])
    /\ pc' = "SelectProvider"
    /\ UNCHANGED <<calls, mode, settings, logs, config, branches, requests, status, net,
                   wire, received, lines, cur, result, summary, segments, sink, files,
                   writes, disk, ret, send_error, outsideEngine>>

\* generate_summary_with_stream: the logs merged in the order the HashMap iterates,
\* build_prompt(summary_type, title).
BuildPromptStream ==
    /\ pc = "BuildingPrompt"
    /\ mode = "stream"
    /\ \E order \in Orders(DOMAIN logs) : logs_content' = SerializeLogs(logs, order)
    /\ prompt' = Some([system |-> "assistant",
                       user |-> <<config.summary_type, config.title>>])
    /\ pc' = "SelectProvider"
    /\ UNCHANGED <<calls, mode, settings, logs, config, branches, requests, status, net,
                   wire, received, lines, cur, result, summary, segments, sink, files,
                   writes, disk, ret, send_error, outsideEngine>>

\* A selection that never takes the local arm.
BlockingBranchRemoteOnly(s) == "remote"

\* generate_summary: if self.settings.use_local_ollama { ollama } else { external }.
BlockingBranch(s) == IF s.use_local_ollama THEN "local" ELSE "remote"

SelectProviderBlocking ==
    /\ pc = "SelectProvider"
    /\ mode = "blocking"
    /\ LET b == BlockingBranch(settings)
       IN  /\ branches' = Append(branches, b)
           /\ pc' = IF b = "local" THEN "LocalSend" ELSE "RemoteSend"
    /\ UNCHANGED <<calls, mode, settings, logs, config, prompt, logs_content, requests,
                   status, net, wire, received, lines, cur, result, summary, segments, sink,
                   files, writes, disk, ret, send_error, outsideEngine>>

\* generate_summary_with_stream: match self.get_summary_api_type() { 0 => local,
\* _ => external stream }; the local arm reports its first status at once.
StreamBranch(s) == IF get_summary_api_type(s) = 0 THEN "local" ELSE "remote"

SelectProviderStream ==
    /\ pc = "SelectProvider"
    /\ mode = "stream"
    /\ LET b == StreamBranch(settings)
       IN  /\ branches' = Append(branches, b)
           /\ pc' = IF b = "local" THEN "LocalSend" ELSE "StreamSend"
           /\ sink' = IF b = "local" THEN Append(sink, LocalStartStatus) ELSE sink
    /\ UNCHANGED <<calls, mode, settings, logs, config, prompt, logs_content, requests,
                   status, net, wire, received, lines, cur, result, summary, segments,
                   files, writes, disk, ret, send_error, outsideEngine>>

\* generate_with_ollama: the POST to {ollama_address}/api/generate is sent.
OllamaSend ==
    /\ pc = "LocalSend"
    /\ requests' = Append(requests, "local")
    /\ pc' = "LocalAwait"
    /\ net' = "sent"
    /\ UNCHANGED <<calls, mode, settings, logs, config, prompt, logs_content, branches,
                   status, wire, received, lines, cur, result, summary, segments, sink,
                   files, writes, disk, ret, send_error, outsideEngine>>

\* generate_with_ollama: the send fails.
OllamaSendFails ==
    /\ pc = "LocalAwait"
    /\ \E failure \in SendFailures : send_error' = Some(failure)
    /\ Fail("ReqwestError")
    /\ net' = "send failed"
    /\ UNCHANGED <<calls, mode, settings, logs, config, prompt, logs_content, branches,
                   requests, status, wire, received, lines, cur, result, summary, segments,
                   sink, files, writes, disk, outsideEngine>>

\* generate_with_ollama: the response arrives; a status that is no success and a
\* body that is no OllamaResponse are errors, otherwise the response field is the
\* summary. `received` keeps the response field as the endpoint sent it. The
\* blocking entry point goes on to save it, the streaming entry point to its
\* progress segments.
OllamaRespond ==
    /\ pc = "LocalAwait"
    /\ \E code \in Statuses :
        /\ status' = code
        /\ IF ~IsSuccess(code)
           THEN /\ Fail("OllamaStatus")
                /\ UNCHANGED <<summary, segments, received>>
           ELSE \E body \in Texts \cup {NotJson} :
                /\ received' = Append(received, body)
                /\ IF body \notin Texts
                   THEN /\ Fail("ReqwestError")
                        /\ UNCHANGED <<summary, segments>>
                   ELSE /\ summary' = body
                        /\ segments' = IF mode = "stream" THEN LocalSegments
                                                         ELSE segments
                        /\ pc' = IF mode = "stream" THEN "LocalPing" ELSE "Persisting"
                        /\ UNCHANGED ret
    /\ net' = "responded"
    /\ UNCHANGED <<calls, mode, settings, logs, config, prompt, logs_content, branches,
                   requests, wire, lines, cur, result, sink, files, writes, disk,
                   send_error, outsideEngine>>

\* generate_summary_with_stream, local arm: one progress segment after a sleep.
LocalPing ==
    /\ pc = "LocalPing"
    /\ segments # <<>>
    /\ sink' = Append(sink, Head(segments))
    /\ segments' = Tail(segments)
    /\ UNCHANGED <<calls, pc, mode, settings, logs, config, prompt, logs_content, branches,
                   requests, status, net, wire, received, lines, cur, result, summary,
                   files, writes, disk, ret, send_error, outsideEngine>>

\* A local arm that also hands the generated text to the callback before it
\* returns.
LocalStreamReturnSendsResult ==
    /\ pc = "LocalPing"
    /\ segments = <<>>
    /\ pc' = "Done"
    /\ sink' = Append(sink, summary)
    /\ ret' = Ok(summary)
    /\ UNCHANGED <<calls, mode, settings, logs, config, prompt, logs_content, branches,
                   requests, status, net, wire, received, lines, cur, result, summary,
                   segments, files, writes, disk, send_error, outsideEngine>>

\* generate_summary_with_stream, local arm: Ok(summary) after the last segment.
LocalStreamReturn ==
    /\ pc = "LocalPing"
    /\ segments = <<>>
    /\ pc' = "Done"
    /\ ret' = Ok(summary)
    /\ UNCHANGED <<calls, mode, settings, logs, config, prompt, logs_content, branches,
                   requests, status, net, wire, received, lines, cur, result, summary,
                   segments, sink, files, writes, disk, send_error, outsideEngine>>

\* A send that looks at the URL only before it posts.
ExternalApiSendChecksUrlOnly ==
    /\ pc = "RemoteSend"
    /\ IF settings.llm_api_url = ""
       THEN /\ Fail("NotConfigured")
            /\ UNCHANGED <<requests, net>>
       ELSE /\ requests' = Append(requests, "remote")
            /\ pc' = "RemoteAwait"
            /\ net' = "sent"
            /\ UNCHANGED ret
    /\ UNCHANGED <<calls, mode, settings, logs, config, prompt, logs_content, branches,
                   status, wire, received, lines, cur, result, summary, segments, sink,
                   files, writes, disk, send_error, outsideEngine>>

\* generate_with_external_api: an empty URL or key is an error before anything is
\* sent; otherwise the POST is sent.
ExternalApiSend ==
    /\ pc = "RemoteSend"
    /\ IF settings.llm_api_url = "" \/ settings.llm_api_key = ""
       THEN /\ Fail("NotConfigured")
            /\ UNCHANGED requests
       ELSE /\ requests' = Append(requests, "remote")
            /\ pc' = "RemoteAwait"
            /\ UNCHANGED ret
    /\ net' = IF settings.llm_api_url = "" \/ settings.llm_api_key = "" THEN net ELSE "sent"
    /\ UNCHANGED <<calls, mode, settings, logs, config, prompt, logs_content, branches,
                   status, wire, received, lines, cur, result, summary, segments, sink,
                   files, writes, disk, send_error, outsideEngine>>

\* generate_with_external_api: the send fails.
ExternalApiSendFails ==
    /\ pc = "RemoteAwait"
    /\ \E failure \in SendFailures :
        /\ send_error' = Some(failure)
        /\ Fail(ExternalSendError(failure))
    /\ net' = "send failed"
    /\ UNCHANGED <<calls, mode, settings, logs, config, prompt, logs_content, branches,
                   requests, status, wire, received, lines, cur, result, summary, segments,
                   sink, files, writes, disk, outsideEngine>>

\* generate_with_external_api: the response arrives and its content is extracted.
ExternalApiRespond ==
    /\ pc = "RemoteAwait"
    /\ \E code \in Statuses :
        /\ status' = code
        /\ IF ~IsSuccess(code)
           THEN /\ Fail(ExternalStatusError(code, settings.llm_api_url = DashscopeUrl))
                /\ UNCHANGED summary
           ELSE \E body \in Texts \cup {NotJson, NoContent} :
                IF body = NotJson
                THEN Fail("SerdeError") /\ UNCHANGED summary
                ELSE IF body = NoContent
                THEN Fail("NoContent") /\ UNCHANGED summary
                ELSE /\ summary' = body
                     /\ pc' = "Persisting"
                     /\ UNCHANGED ret
    /\ net' = "responded"
    /\ UNCHANGED <<calls, mode, settings, logs, config, prompt, logs_content, branches,
                   requests, wire, received, lines, cur, result, segments, sink, files,
                   writes, disk, send_error, outsideEngine>>

\* generate_with_external_api: reading the body of a successful response fails.
ExternalApiReadFails ==
    /\ pc = "RemoteAwait"
    /\ status' = 200
    /\ Fail("ReqwestError")
    /\ net' = "read failed"
    /\ UNCHANGED <<calls, mode, settings, logs, config, prompt, logs_content, branches,
                   requests, wire, received, lines, cur, result, summary, segments, sink,
                   files, writes, disk, send_error, outsideEngine>>

\* impl From<std::io::Error> for AppError (errors.rs), which the ? operator of
\* generate_summary applies: the I/O error variant.
AppErrorFromIo == "IoError"

\* A failed write that is logged and not returned.
PersistStreamIgnoresFailure ==
    /\ pc = "Persisting"
    /\ mode = "stream"
    /\ \E now \in Dates, io \in {"ok", "write fails"} :
        LET path == StreamFilePath(settings.doc_dir[1], now, config.title)
        IN  /\ disk' = io
            /\ pc' = "Done"
            /\ ret' = Ok(result)
            /\ IF io = "ok"
               THEN /\ files' = WriteFile(files, path, result)
                    /\ writes' = Append(writes, [path |-> path, text |-> result])
               ELSE UNCHANGED <<files, writes>>
    /\ UNCHANGED <<calls, mode, settings, logs, config, prompt, logs_content, branches,
                   requests, status, net, wire, received, lines, cur, result, summary,
                   segments, sink, send_error, outsideEngine>>

\* generate_summary: the file name, the parent directories, fs::write, Ok(summary),
\* with Local::now() one of clock. A failure of create_dir_all or of write is
\* returned by the ? operator.
PersistBlocking(clock) ==
    /\ pc = "Persisting"
    /\ mode = "blocking"
    /\ \E now \in clock, io \in {"ok", "create_dir_all fails", "write fails"} :
        LET file_path == JoinPath(settings.log_output_dir, get_summary_filename(config, now))
        IN  /\ disk' = io
            /\ IF io = "ok"
               THEN /\ files' = WriteFile(files, file_path, summary)
                    /\ writes' = Append(writes, [path |-> file_path, text |-> summary])
                    /\ pc' = "Done"
                    /\ ret' = Ok(summary)
               ELSE /\ Fail(AppErrorFromIo)
                    /\ UNCHANGED <<files, writes>>
    /\ UNCHANGED <<calls, mode, settings, logs, config, prompt, logs_content, branches,
                   requests, status, net, wire, received, lines, cur, result, summary,
                   segments, sink, send_error, outsideEngine>>

\* generate_with_external_api_stream: the client is built and the POST is sent; a
\* client that cannot be built is an error.
ExternalStreamSend ==
    /\ pc = "StreamSend"
    /\ \/ /\ requests' = Append(requests, "remote")
          /\ net' = "sent"
          /\ pc' = "StreamAwait"
          /\ UNCHANGED ret
       \/ /\ Fail("ClientBuild")
          /\ UNCHANGED <<requests, net>>
    /\ UNCHANGED <<calls, mode, settings, logs, config, prompt, logs_content, branches,
                   status, wire, received, lines, cur, result, summary, segments, sink,
                   files, writes, disk, send_error, outsideEngine>>

\* A send that is tried once more after it failed.
ExternalStreamSendFailsRetries ==
    /\ pc = "StreamAwait"
    /\ \E failure \in SendFailures :
        /\ send_error' = Some(failure)
        /\ IF Len(requests) < 2
           THEN pc' = "StreamSend" /\ UNCHANGED ret
           ELSE Fail(StreamSendError(failure))
    /\ net' = "send failed"
    /\ UNCHANGED <<calls, mode, settings, logs, config, prompt, logs_content, branches,
                   requests, status, wire, received, lines, cur, result, summary, segments,
                   sink, files, writes, disk, outsideEngine>>

\* generate_with_external_api_stream: the send fails.
ExternalStreamSendFails ==
    /\ pc = "StreamAwait"
    /\ \E failure \in SendFailures :
        /\ send_error' = Some(failure)
        /\ Fail(StreamSendError(failure))
    /\ net' = "send failed"
    /\ UNCHANGED <<calls, mode, settings, logs, config, prompt, logs_content, branches,
                   requests, status, wire, received, lines, cur, result, summary, segments,
                   sink, files, writes, disk, outsideEngine>>

\* generate_with_external_api_stream: the response head arrives; a status that is
\* no success is an error, otherwise the body (one of bodies) starts to stream.
ExternalStreamRespond(bodies) ==
    /\ pc = "StreamAwait"
    /\ \E code \in Statuses :
        /\ status' = code
        /\ IF ~IsSuccess(code)
           THEN /\ Fail(StreamStatusError(code, get_summary_api_type(settings)))
                /\ UNCHANGED wire
           ELSE /\ \E body \in bodies : wire' = body
                /\ pc' = "Streaming"
                /\ UNCHANGED ret
    /\ net' = "responded"
    /\ UNCHANGED <<calls, mode, settings, logs, config, prompt, logs_content, branches,
                   requests, received, lines, cur, result, summary, segments, sink, files,
                   writes, disk, send_error, outsideEngine>>

\* stream.next() yields Ok(bytes): the next buffer is any non-empty prefix of what
\* has not arrived yet, the last of MaxBuffers buffers all of it; the chunk is
\* split into lines. Nothing of a chunk is kept for the next one. (A token is
\* never cut, so from_utf8_lossy replaces nothing.)
RecvBytes ==
    /\ pc = "Streaming"
    /\ lines = <<>>
    /\ cur = None
    /\ wire # <<>>
    /\ \E n \in 1..Len(wire) :
        /\ Len(received) + 1 < MaxBuffers \/ n = Len(wire)
        /\ LET bytes == SubSeq(wire, 1, n)
           IN  /\ received' = Append(received, bytes)
               /\ wire' = SubSeq(wire, n + 1, Len(wire))
               /\ lines' = Lines(bytes)
    /\ net' = "chunk"
    /\ UNCHANGED <<calls, pc, mode, settings, logs, config, prompt, logs_content, branches,
                   requests, status, cur, result, summary, segments, sink, files, writes,
                   disk, ret, send_error, outsideEngine>>

\* A push_str that replaces the accumulated text.
PushStrOverwrites(res, text) == text

\* result.push_str(text) for the delta of a line.
PushStr(res, text) == res \o text

\* A loop body that returns an error for a data line it cannot decode.
HandleLineStrict ==
    /\ pc = "Streaming"
    /\ lines # <<>>
    /\ cur = None
    /\ LET line == Head(lines)
           delta == DecodeLine(line)
           fatal == /\ line # <<>>
                    /\ Head(line) = DataPrefix
                    /\ Tail(line) # <<DoneMarker>>
                    /\ delta = None
       IN  /\ lines' = Tail(lines)
           /\ cur' = delta
           /\ result' = IF delta # None THEN PushStr(result, delta[1]) ELSE result
           /\ pc' = IF fatal THEN "Failed" ELSE pc
           /\ ret' = IF fatal THEN Err("Decode") ELSE ret
    /\ UNCHANGED <<calls, mode, settings, logs, config, prompt, logs_content, branches,
                   requests, status, net, wire, received, summary, segments, sink, files,
                   writes, disk, send_error, outsideEngine>>

\* A loop body that leaves the loop at the end marker and returns what it has.
HandleLineStopsAtDone ==
    /\ pc = "Streaming"
    /\ lines # <<>>
    /\ cur = None
    /\ LET line == Head(lines)
           delta == DecodeLine(line)
           stop == line = <<DataPrefix, DoneMarker>>
       IN  /\ lines' = Tail(lines)
           /\ cur' = delta
           /\ result' = IF delta # None THEN PushStr(result, delta[1]) ELSE result
           /\ pc' = IF stop THEN "Done" ELSE pc
           /\ ret' = IF stop THEN Ok(result) ELSE ret
    /\ UNCHANGED <<calls, mode, settings, logs, config, prompt, logs_content, branches,
                   requests, status, net, wire, received, summary, segments, sink, files,
                   writes, disk, send_error, outsideEngine>>

\* The body of the for loop up to the callback: a line that yields a delta appends
\* it to result, any other line is skipped.
HandleLine ==
    /\ pc = "Streaming"
    /\ lines # <<>>
    /\ cur = None
    /\ LET delta == DecodeLine(Head(lines))
       IN  /\ lines' = Tail(lines)
           /\ cur' = delta
           /\ result' = IF delta # None THEN PushStr(result, delta[1]) ELSE result
    /\ UNCHANGED <<calls, pc, mode, settings, logs, config, prompt, logs_content, branches,
                   requests, status, net, wire, received, summary, segments, sink, files,
                   writes, disk, ret, send_error, outsideEngine>>

\* A delivery that puts the newest delta first.
DeliverFirst(snk, text) == <<text>> \o snk

\* progress_callback(text) for the delta just appended.
Deliver(snk, text) == Append(snk, text)

ProgressCallback ==
    /\ pc = "Streaming"
    /\ cur # None
    /\ sink' = Deliver(sink, cur[1])
    /\ cur' = None
    /\ UNCHANGED <<calls, pc, mode, settings, logs, config, prompt, logs_content, branches,
                   requests, status, net, wire, received, lines, result, summary, segments,
                   files, writes, disk, ret, send_error, outsideEngine>>

\* A read error taken for the end of the body: the loop is left and the text
\* gathered so far is returned.
StreamReadFailsIgnored ==
    /\ pc = "Streaming"
    /\ lines = <<>>
    /\ cur = None
    /\ net' = "read failed"
    /\ pc' = "Done"
    /\ ret' = Ok(result)
    /\ UNCHANGED <<calls, mode, settings, logs, config, prompt, logs_content, branches,
                   requests, status, wire, received, lines, cur, result, summary, segments,
                   sink, files, writes, disk, send_error, outsideEngine>>

\* stream.next() yields Err(e): the run ends with the error.
StreamReadFails ==
    /\ pc = "Streaming"
    /\ lines = <<>>
    /\ cur = None
    /\ Fail("StreamRead")
    /\ net' = "read failed"
    /\ UNCHANGED <<calls, mode, settings, logs, config, prompt, logs_content, branches,
                   requests, status, wire, received, lines, cur, result, summary, segments,
                   sink, files, writes, disk, send_error, outsideEngine>>

\* stream.next() yields None (the body is closed): with a doc_dir the result is
\* saved next, without one Ok(result) is returned.
StreamEnds ==
    /\ pc = "Streaming"
    /\ lines = <<>>
    /\ cur = None
    /\ wire = <<>>
    /\ IF settings.doc_dir # None
       THEN pc' = "Persisting" /\ UNCHANGED ret
       ELSE pc' = "Done" /\ ret' = Ok(result)
    /\ net' = "closed"
    /\ UNCHANGED <<calls, mode, settings, logs, config, prompt, logs_content, branches,
                   requests, status, wire, received, lines, cur, result, summary, segments,
                   sink, files, writes, disk, send_error, outsideEngine>>

\* A save that reports the saved text to the callback once the file is written.
PersistStreamNotifies ==
    /\ pc = "Persisting"
    /\ mode = "stream"
    /\ \E now \in Dates :
        LET path == StreamFilePath(settings.doc_dir[1], now, config.title)
        IN  /\ files' = WriteFile(files, path, result)
            /\ writes' = Append(writes, [path |-> path, text |-> result])
    /\ disk' = "ok"
    /\ sink' = Append(sink, result)
    /\ pc' = "Done"
    /\ ret' = Ok(result)
    /\ UNCHANGED <<calls, mode, settings, logs, config, prompt, logs_content, branches,
                   requests, status, net, wire, received, lines, cur, result, summary,
                   segments, send_error, outsideEngine>>

\* generate_with_external_api_stream: fs::write of the result to
\* {doc_dir}/{date}-{title}.md, then Ok(result); a failed write is an IoError.
PersistStream ==
    /\ pc = "Persisting"
    /\ mode = "stream"
    /\ \E now \in Dates, io \in {"ok", "write fails"} :
        LET path == StreamFilePath(settings.doc_dir[1], now, config.title)
        IN  /\ disk' = io
            /\ IF io = "ok"
               THEN /\ files' = WriteFile(files, path, result)
                    /\ writes' = Append(writes, [path |-> path, text |-> result])
                    /\ pc' = "Done"
                    /\ ret' = Ok(result)
               ELSE /\ Fail("IoError")
                    /\ UNCHANGED <<files, writes>>
    /\ UNCHANGED <<calls, mode, settings, logs, config, prompt, logs_content, branches,
                   requests, status, net, wire, received, lines, cur, result, summary,
                   segments, sink, send_error, outsideEngine>>

\* ------------------------------------------------------- the summary panel

\* The calendar of the JavaScript Date.
IsLeapYear(y) == (y % 4 = 0 /\ y % 100 # 0) \/ y % 400 = 0

DaysInMonth(y, m) ==
    IF m = 2 THEN (IF IsLeapYear(y) THEN 29 ELSE 28)
    ELSE IF m \in {4, 6, 9, 11} THEN 30 ELSE 31

CalendarYears == 2023..2024

\* Every day of the calendar years.
CalendarDays ==
    {d \in [year : CalendarYears, month : 1..12, day : 1..31] :
        d.day <= DaysInMonth(d.year, d.month)}

RECURSIVE setDate(_, _)
\* Date.prototype.setDate(n) on date: day n of date's month, where a day before
\* the first or after the last of the month runs into the neighbouring months.
setDate(date, n) ==
    IF n < 1
    THEN LET prev == IF date.month = 1
                     THEN [year |-> date.year - 1, month |-> 12, day |-> 1]
                     ELSE [year |-> date.year, month |-> date.month - 1, day |-> 1]
         IN  setDate(prev, n + DaysInMonth(prev.year, prev.month))
    ELSE IF n > DaysInMonth(date.year, date.month)
    THEN LET next == IF date.month = 12
                     THEN [year |-> date.year + 1, month |-> 1, day |-> 1]
                     ELSE [year |-> date.year, month |-> date.month + 1, day |-> 1]
         IN  setDate(next, n - DaysInMonth(date.year, date.month))
    ELSE [date EXCEPT !.day = n]

\* formatDate(date): "YYYY-MM-DD".
formatDate(date) == <<date.year, "-", date.month, "-", date.day>>

\* new Date(dateStr) read with the local getters: a date-only string is midnight
\* UTC, which west of Greenwich is still the day before.
NewDate(dateStr, west) ==
    LET utc == [year |-> dateStr[1], month |-> dateStr[3], day |-> dateStr[5]]
    IN  IF west THEN setDate(utc, utc.day - 1) ELSE utc

\* getMonthFromDate(dateStr): "{year}年{month}月"; NaN for a string that is no date.
getMonthFromDate(dateStr, west) ==
    IF dateStr = <<>> THEN <<"NaN", "NaN">>
    ELSE LET date == NewDate(dateStr, west)
             getMonth == date.month - 1
         IN  <<date.year, getMonth + 1>>

\* Math.floor(date.getMonth() / 3) + 1.
QuarterOfMonthIndex(getMonth) == (getMonth \div 3) + 1

\* getQuarterFromDate(dateStr): "{year}年第{quarter}季度".
getQuarterFromDate(dateStr, west) ==
    IF dateStr = <<>> THEN <<"NaN", "NaN">>
    ELSE LET date == NewDate(dateStr, west)
             getMonth == date.month - 1
         IN  <<date.year, QuarterOfMonthIndex(getMonth)>>

\* The title updateSummaryTitle sets for a type and the two dates.
TitleFor(type, start, end, west) ==
    CASE type = 0 -> <<"weekly report", start, end>>
      [] type = 1 -> <<"monthly report">> \o getMonthFromDate(start, west)
      [] type = 2 -> <<"quarterly report">> \o getQuarterFromDate(start, west)
      [] type = 3 -> <<"report", start, end>>

\* The summaryTypeString of handleSubmit.
SummaryTypeString(type) ==
    CASE type = 0 -> "weekly"
      [] type = 1 -> "monthly"
      [] type = 2 -> "quarterly"
      [] type = 3 -> "custom"
      [] OTHER -> "weekly"

\* Params that carry the dates whatever the type.
SubmitParamsWithDates(type, title, start, end) ==
    [summaryType |-> SummaryTypeString(type), title |-> title,
     startDate |-> Some(start), endDate |-> Some(end)]

\* The params of handleSubmit: the dates only for the custom type.
SubmitParams(type, title, start, end) ==
    [summaryType |-> SummaryTypeString(type), title |-> title,
     startDate |-> IF type = 3 THEN Some(start) ELSE None,
     endDate |-> IF type = 3 THEN Some(end) ELSE None]

\* The values a user puts into a date input: none, or a date.
DateEdits == {<<>>, formatDate([year |-> 2024, month |-> 4, day |-> 1])}

\* The title a user types.
TypedTitles == {<<"my title">>}

\* A registration that does not look at eventListenersActive.
setupTauriEventListenersAgain(active, registered) == registered + 1

\* setupTauriEventListeners: nothing when eventListenersActive is set; otherwise
\* listen() is called once for each of the five events. The result is the number
\* of registrations afterwards.
setupTauriEventListeners(active, registered) ==
    IF active THEN registered ELSE registered + 1

\* removeTauriEventListeners: listen is the function of the Tauri event module and
\* has no member drop, so the first listen.drop(..) throws a TypeError; the catch
\* logs it, eventListenersActive is left as it was and nothing is unregistered
\* (the unlisten functions listen() resolved to were never kept). The result is
\* the pair of the flag and the number of registrations afterwards.
removeTauriEventListeners(active, registered) == <<active, registered>>

\* connectedCallback: render (the button is drawn enabled), setupFormInitialValues
\* (weekly checked, the dates from a week ago to today, the weekly title),
\* setupEventListeners, setupTauriEventListeners.
connectedCallback ==
    /\ ~connected
    /\ connected' = TRUE
    /\ LET weekAgo == setDate(today, today.day - 7)
       IN  /\ startDate' = formatDate(weekAgo)
           /\ endDate' = formatDate(today)
           /\ summaryTitle' = <<"weekly report", formatDate(weekAgo), formatDate(today)>>
    /\ disabled' = FALSE
    /\ handlers' = setupTauriEventListeners(eventListenersActive, handlers)
    /\ eventListenersActive' = TRUE
    /\ UNCHANGED <<today, summaryType, invoked, currentSummary, open, started, chunks,
                   pending, outsideSummaryPanel>>

\* disconnectedCallback: removeTauriEventListeners.
disconnectedCallback ==
    /\ connected
    /\ connected' = FALSE
    /\ LET after == removeTauriEventListeners(eventListenersActive, handlers)
       IN  /\ eventListenersActive' = after[1]
           /\ handlers' = after[2]
    /\ UNCHANGED <<today, summaryType, startDate, endDate, summaryTitle, invoked,
                   currentSummary, disabled, open, started, chunks, pending,
                   outsideSummaryPanel>>

\* handleSummaryTypeChange: another radio button is chosen; the title follows.
handleSummaryTypeChange(value) ==
    /\ connected
    /\ value # summaryType
    /\ summaryType' = value
    /\ \E west \in BOOLEAN : summaryTitle' = TitleFor(value, startDate, endDate, west)
    /\ UNCHANGED <<today, connected, startDate, endDate, invoked, outsidePanel>>

\* handleDateChange: one of the date inputs, enabled for the custom type only,
\* gets a new value; the title follows for the custom type.
handleDateChange(id, value) ==
    /\ connected
    /\ summaryType = 3
    /\ startDate' = IF id = "start-date" THEN value ELSE startDate
    /\ endDate' = IF id = "end-date" THEN value ELSE endDate
    /\ summaryTitle' = IF summaryType = 3
                       THEN TitleFor(summaryType, startDate', endDate', FALSE)
                       ELSE summaryTitle
    /\ UNCHANGED <<today, connected, summaryType, invoked, outsidePanel>>

\* The input listener of the title field.
handleTitleInput(value) ==
    /\ connected
    /\ summaryTitle' = value
    /\ UNCHANGED <<today, connected, summaryType, startDate, endDate, invoked,
                   outsidePanel>>

\* A submit that leaves the button as it is.
handleSubmitLeavesButton ==
    /\ connected
    /\ ~disabled
    /\ open < MaxOpen
    /\ pending < MaxOpen
    /\ invoked' = Some(SubmitParams(summaryType, summaryTitle, startDate, endDate))
    /\ open' = open + 1
    /\ pending' = pending + 1
    /\ UNCHANGED <<today, connected, summaryType, startDate, endDate, summaryTitle,
                   currentSummary, eventListenersActive, handlers, disabled, started,
                   chunks, outsideSummaryPanel>>

\* handleSubmit, the submit listener of the form (a form whose submit button is
\* disabled is not submitted): setGeneratingState(true), then
\* invoke('generate_summary', params) without awaiting it; invoked keeps the
\* params of the latest call.
handleSubmit ==
    /\ connected
    /\ ~disabled
    /\ open < MaxOpen
    /\ pending < MaxOpen
    /\ disabled' = TRUE
    /\ invoked' = Some(SubmitParams(summaryType, summaryTitle, startDate, endDate))
    /\ open' = open + 1
    /\ pending' = pending + 1
    /\ UNCHANGED <<today, connected, summaryType, startDate, endDate, summaryTitle,
                   currentSummary, eventListenersActive, handlers, started, chunks,
                   outsideSummaryPanel>>

\* The promise of an invoke call is rejected: the catch shows the error and calls
\* setGeneratingState(false).
InvokeRejects ==
    /\ open > 0
    /\ open' = open - 1
    /\ disabled' = FALSE
    /\ pending' = 0
    /\ UNCHANGED <<panelVars, currentSummary, eventListenersActive, handlers, started,
                   chunks, outsideSummaryPanel>>

\* The promise of an invoke call is fulfilled: no then-handler is attached.
InvokeResolves ==
    /\ open > 0
    /\ open' = open - 1
    /\ UNCHANGED <<panelVars, currentSummary, eventListenersActive, handlers, disabled,
                   started, chunks, pending, outsideSummaryPanel>>

\* The payloads of summary-generation-chunk events.
ChunkPayloads == {<<>>, TextA, TextBC}

RECURSIVE AppendTimes(_, _, _)
\* text with chunk appended n times: one += per registered handler.
AppendTimes(text, chunk, n) ==
    IF n = 0 THEN text ELSE AppendTimes(text \o chunk, chunk, n - 1)

\* A start handler that keeps the text gathered so far.
OnGenerationStartKeepsText ==
    /\ handlers > 0
    /\ disabled' = TRUE
    /\ started' = TRUE
    /\ chunks' = <<>>
    /\ UNCHANGED <<panelVars, currentSummary, eventListenersActive, handlers, open,
                   pending, outsideSummaryPanel>>

\* The handler of summary-generation-start: setGeneratingState(true), the text is
\* reset and the result container is cleared.
OnGenerationStart ==
    /\ handlers > 0
    /\ disabled' = TRUE
    /\ currentSummary' = <<>>
    /\ started' = TRUE
    /\ chunks' = <<>>
    /\ UNCHANGED <<panelVars, eventListenersActive, handlers, open, pending,
                   outsideSummaryPanel>>

\* The handler of summary-generation-processing: a console.log.
OnGenerationProcessing ==
    /\ handlers > 0
    /\ UNCHANGED vars

\* The handler of summary-generation-chunk: nothing for an empty payload,
\* otherwise this.currentSummary += chunk and the text is drawn again.
OnGenerationChunk(chunk) ==
    /\ handlers > 0
    /\ Len(chunks) < MaxChunks
    /\ currentSummary' = IF chunk = <<>> THEN currentSummary
                          ELSE AppendTimes(currentSummary, chunk, handlers)
    /\ chunks' = Append(chunks, chunk)
    /\ UNCHANGED <<panelVars, eventListenersActive, handlers, disabled, open, started,
                   pending, outsideSummaryPanel>>

\* The handler of summary-generation-complete: showSummaryResult(payload) and
\* setGeneratingState(false).
OnGenerationComplete ==
    /\ handlers > 0
    /\ disabled' = FALSE
    /\ pending' = 0
    /\ UNCHANGED <<panelVars, currentSummary, eventListenersActive, handlers, open,
                   started, chunks, outsideSummaryPanel>>

\* The handler of summary-generation-error: showError(payload) and
\* setGeneratingState(false).
OnGenerationError ==
    /\ handlers > 0
    /\ disabled' = FALSE
    /\ pending' = 0
    /\ UNCHANGED <<panelVars, currentSummary, eventListenersActive, handlers, open,
                   started, chunks, outsideSummaryPanel>>

\* ------------------------------------ two invocations that save at once

\* write_all on a file just opened: the bytes go to offset 0 and replace what is
\* there; what lies beyond them stays.
WriteAtStart(content, text) ==
    text \o SubSeq(content, Len(text) + 1, Len(content))

\* The path both invocations save to: the same settings, the same config and the
\* same day.
JobPath == JoinPath(settings.log_output_dir, get_summary_filename(config, today))

\* generate_summary of invocation i up to the save: the provider has returned the
\* summary.
JobGenerate(i) ==
    /\ jobs[i].pc = "Idle"
    /\ \E text \in Texts : jobs' = [jobs EXCEPT ![i].pc = "Persisting", ![i].summary = text]
    /\ UNCHANGED <<files, wrote, outsideJobs>>

\* fs::write, its first half: File::create opens the file and truncates it.
JobCreate(i) ==
    /\ jobs[i].pc = "Persisting"
    /\ files' = WriteFile(files, JobPath, <<>>)
    /\ jobs' = [jobs EXCEPT ![i].pc = "Opened"]
    /\ UNCHANGED <<wrote, outsideJobs>>

\* fs::write, its second half: write_all through the handle opened before, then
\* Ok(summary).
JobWriteAll(i) ==
    /\ jobs[i].pc = "Opened"
    /\ files' = WriteFile(files, JobPath, WriteAtStart(files[JobPath], jobs[i].summary))
    /\ jobs' = [jobs EXCEPT ![i].pc = "Done", ![i].ret = Ok(jobs[i].summary)]
    /\ wrote' = Append(wrote, i)
    /\ UNCHANGED outsideJobs

\* ------------------------------------------------------- the log files panel

\* The calls awaited by the log files panel.
InFlight ==
    loading["2024-12-30.json"] + loading["2024-12-31.json"]
        + (IF mutation = None THEN 0 ELSE 1) + (IF listing THEN 1 ELSE 0)

\* loadLogEntries(fileName) up to its await: this.currentFile = fileName and
\* invoke('get_log_entries', { date }) is sent.
loadLogEntries(fileName) ==
    /\ currentFile' = Some(fileName)
    /\ loading' = [loading EXCEPT ![fileName] = @ + 1]

\* connectedCallback of the log files panel: render, loadLogFiles up to its await.
filesConnectedCallback ==
    /\ ~filesConnected
    /\ filesConnected' = TRUE
    /\ listing' = TRUE
    /\ UNCHANGED <<logFiles, currentFile, logEntries, store, loading, mutation,
                   outsideFilesPanel>>

\* loadLogFiles after its await: the list is kept and drawn, and the first file
\* is loaded.
GetLogFilesReturns ==
    /\ listing
    /\ listing' = FALSE
    /\ logFiles' = LogFileNames
    /\ loadLogEntries(LogFileNames[1])
    /\ UNCHANGED <<filesConnected, logEntries, store, mutation, outsideFilesPanel>>

\* handleFileClick(fileName): a file of the drawn list is clicked.
handleFileClick(fileName) ==
    /\ \E i \in DOMAIN logFiles : logFiles[i] = fileName
    /\ InFlight < MaxLoads
    /\ loadLogEntries(fileName)
    /\ UNCHANGED <<filesConnected, listing, logFiles, logEntries, store, mutation,
                   outsideFilesPanel>>

\* loadLogEntries after its await: one of the awaited get_log_entries calls
\* returns the entries of its file; they become this.logEntries and are drawn.
GetLogEntriesReturns(fileName) ==
    /\ loading[fileName] > 0
    /\ loading' = [loading EXCEPT ![fileName] = @ - 1]
    /\ logEntries' = store[fileName]
    /\ UNCHANGED <<filesConnected, listing, logFiles, currentFile, store, mutation,
                   outsideFilesPanel>>

\* handleDeleteEntry(entryId) up to its await, for an entry of the drawn list and
\* a confirmed dialog: invoke('delete_log_entry', { entryId, date }).
handleDeleteEntry(entry) ==
    /\ currentFile # None
    /\ \E i \in DOMAIN logEntries : logEntries[i] = entry
    /\ mutation = None
    /\ InFlight < MaxLoads
    /\ mutation' = Some([kind |-> "delete", file |-> currentFile[1], entry |-> entry])
    /\ UNCHANGED <<filesConnected, listing, logFiles, currentFile, logEntries, store,
                   loading, outsideFilesPanel>>

\* The submit of the edit form of an entry of the drawn list, up to its await:
\* invoke('update_log_entry', { entry }).
handleEditSubmit(entry) ==
    /\ currentFile # None
    /\ \E i \in DOMAIN logEntries : logEntries[i] = entry
    /\ entry # "edited"
    /\ mutation = None
    /\ InFlight < MaxLoads
    /\ mutation' = Some([kind |-> "update", file |-> currentFile[1], entry |-> entry])
    /\ UNCHANGED <<filesConnected, listing, logFiles, currentFile, logEntries, store,
                   loading, outsideFilesPanel>>

\* The entries without the deleted one.
DeleteEntry(entries, entry) == SelectSeq(entries, LAMBDA e : e # entry)

\* The entries with the new content in the place of the edited one.
UpdateEntry(entries, entry) ==
    [i \in DOMAIN entries |-> IF entries[i] = entry THEN "edited" ELSE entries[i]]

\* handleDeleteEntry and the edit submit after their await: the backend has
\* changed the file, and loadLogEntries(this.currentFile) reloads the file that
\* is current by now.
MutationReturns ==
    /\ mutation # None
    /\ LET m == mutation[1]
       IN  store' = [f \in DOMAIN store |->
                        IF m.kind = "delete"
                        THEN (IF f = m.file THEN DeleteEntry(store[f], m.entry) ELSE store[f])
                        ELSE UpdateEntry(store[f], m.entry)]
    /\ mutation' = None
    /\ loadLogEntries(currentFile[1])
    /\ UNCHANGED <<filesConnected, listing, logFiles, logEntries, outsideFilesPanel>>

\* ------------------------------------------------------- the theme manager

\* Array.prototype.indexOf, counted from 0: -1 when x is not an element of s.
indexOf(s, x) ==
    IF \E i \in DOMAIN s : s[i] = x
    THEN (CHOOSE i \in DOMAIN s : s[i] = x /\ \A j \in 1..(i - 1) : s[j] # x) - 1
    ELSE -1

\* addThemeChangeListener: push.
addThemeChangeListener(listeners, listener) == Append(listeners, listener)

\* A removal that leaves the array as it is.
removeThemeChangeListenerKeeps(listeners, listener) == listeners

\* removeThemeChangeListener: filter(l => l !== listener).
removeThemeChangeListener(listeners, listener) ==
    SelectSeq(listeners, LAMBDA l : l # listener)

\* notifyListeners: forEach calls each element of the array once; the result is
\* the calls made, in order.
notifyListeners(listeners) == listeners

\* saveThemeSettings: setItem stores the settings, or throws and the catch logs.
saveThemeSettings(storage, settings_, stores) ==
    IF stores THEN Some(settings_) ELSE storage

\* The body setThemeMode and setFontSize share, next being this.settings with
\* the argument assigned: nothing when the value is the current one, else the
\* assignment, saveThemeSettings and applyTheme, which ends with notifyListeners.
SetThemeSettings(next) ==
    IF next # themeSettings
    THEN /\ themeSettings' = next
         /\ \E stores \in BOOLEAN :
                /\ themeStorage' = saveThemeSettings(themeStorage, next, stores)
                /\ lastSave' = IF stores THEN "stored" ELSE "failed"
         /\ themeCall' = [made |-> TRUE,
                          changed |-> TRUE,
                          listeners |-> themeChangeListeners,
                          notified |-> notifyListeners(themeChangeListeners),
                          saves |-> 1]
    ELSE /\ themeCall' = [made |-> TRUE,
                          changed |-> FALSE,
                          listeners |-> themeChangeListeners,
                          notified |-> <<>>,
                          saves |-> 0]
         /\ UNCHANGED <<themeSettings, themeStorage, lastSave>>

\* setThemeMode(mode).
setThemeMode(mode_) ==
    /\ SetThemeSettings([themeSettings EXCEPT !.mode = mode_])
    /\ toggleRun' = <<>>
    /\ UNCHANGED <<themeChangeListeners, outsideTheme>>

\* setFontSize(size).
setFontSize(size) ==
    /\ SetThemeSettings([themeSettings EXCEPT !.fontSize = size])
    /\ UNCHANGED <<themeChangeListeners, toggleRun, outsideTheme>>

\* The theme before the current one in the array, the last before the first.
PreviousTheme(mode_) ==
    themes[((indexOf(themes, mode_) + Len(themes) - 1) % Len(themes)) + 1]

\* The theme after the current one in the array, the first after the last.
NextTheme(mode_) == themes[((indexOf(themes, mode_) + 1) % Len(themes)) + 1]

\* The last three elements of s.
LastThree(s) == IF Len(s) > 3 THEN SubSeq(s, Len(s) - 2, Len(s)) ELSE s

\* toggleTheme: setThemeMode of the next theme.
toggleTheme ==
    /\ SetThemeSettings([themeSettings EXCEPT !.mode = NextTheme(themeSettings.mode)])
    /\ toggleRun' = LastThree(Append(toggleRun, themeSettings.mode))
    /\ UNCHANGED <<themeChangeListeners, outsideTheme>>

\* ------------------------------------------------------------- the layout

\* The data-page of the four navigation items and of the four content panels.
Pages == {"log-files", "log-summary", "settings", "help"}

\* The payloads of the navigate event: the pages and a name that is none of them.
NavigatePayloads == Pages \cup {"about"}

\* The pages the shadow root holds a panel and a navigation item of.
RenderedPages(drawn) == IF drawn THEN Pages ELSE {}

\* An update that adds the class to the panel of the page and removes it nowhere.
ActivePanelsKeepsOthers(panels, page, drawn) ==
    IF page \in RenderedPages(drawn) THEN panels \cup {page} ELSE panels

\* updateActiveContent, the panels: the class is removed from every panel, and
\* added to the panel querySelector finds for the page, if any.
ActivePanels(panels, page, drawn) ==
    LET cleared == panels \ RenderedPages(drawn)
    IN  IF page \in RenderedPages(drawn) THEN cleared \cup {page} ELSE cleared

\* updateActiveContent, the navigation: each item gets the class if its data-page
\* is the page and loses it otherwise.
ActiveNavs(navs, page, drawn) ==
    (navs \cup {p \in RenderedPages(drawn) : p = page})
        \ {p \in RenderedPages(drawn) : p # page}

\* connectedCallback of the layout: render draws the page log-files active and
\* ends with updateActiveContent; then the listener is added.
layoutConnectedCallback ==
    /\ ~layoutConnected
    /\ layoutConnected' = TRUE
    /\ rendered' = TRUE
    /\ panelActive' = ActivePanels({"log-files"}, activePage, TRUE)
    /\ navActive' = ActiveNavs({"log-files"}, activePage, TRUE)
    /\ themeChangeListeners' = addThemeChangeListener(themeChangeListeners, "main-layout")
    /\ UNCHANGED <<activePage, themeSettings, themeStorage, themeCall, lastSave, toggleRun,
                   outsideLayout>>

\* disconnectedCallback of the layout.
layoutDisconnectedCallback ==
    /\ layoutConnected
    /\ layoutConnected' = FALSE
    /\ themeChangeListeners' =
            removeThemeChangeListener(themeChangeListeners, "main-layout")
    /\ UNCHANGED <<rendered, activePage, panelActive, navActive, themeSettings,
                   themeStorage, themeCall, lastSave, toggleRun, outsideLayout>>

\* set activePage(value).
SetActivePage(value) ==
    /\ activePage' = value
    /\ panelActive' = ActivePanels(panelActive, value, rendered)
    /\ navActive' = ActiveNavs(navActive, value, rendered)
    /\ UNCHANGED <<layoutConnected, rendered, themeVars, outsideLayout>>

\* handleNavClick on the navigation item of a page.
handleNavClick(page) ==
    /\ layoutConnected
    /\ page \in RenderedPages(rendered)
    /\ SetActivePage(page)

\* navigateTo(page), called by the listener of the navigate event: the layout
\* is looked up in the document.
navigateTo(page) ==
    /\ layoutConnected
    /\ SetActivePage(page)

\* handleThemeToggle: a click on the theme button of the layout.
handleThemeToggle ==
    /\ layoutConnected
    /\ toggleTheme

\* A click on one of the font size buttons of the layout.
FontSizeClick(size) ==
    /\ layoutConnected
    /\ setFontSize(size)

\* ------------------------------------------------------- the settings panel

\* connectedCallback of the settings panel: loadSettings up to its await, render
\* (the boxes are drawn unchecked), and the listener is added.
settingsConnectedCallback ==
    /\ ~settingsConnected
    /\ settingsConnected' = TRUE
    /\ loadingSettings' = TRUE
    /\ boxes' = Unchecked
    /\ themeChangeListeners' =
            addThemeChangeListener(themeChangeListeners, "settings-panel")
    /\ UNCHANGED <<panelSettings, stored, saving, savedBoxes, engineVars, runs, panelVars,
                   streamVars, filesVars, jobVars, layoutVars, themeSettings, themeStorage,
                   themeCall, lastSave, toggleRun>>

\* disconnectedCallback of the settings panel.
settingsDisconnectedCallback ==
    /\ settingsConnected
    /\ settingsConnected' = FALSE
    /\ themeChangeListeners' =
            removeThemeChangeListener(themeChangeListeners, "settings-panel")
    /\ UNCHANGED <<loadingSettings, panelSettings, boxes, stored, saving, savedBoxes,
                   engineVars, runs, panelVars, streamVars, filesVars, jobVars, layoutVars,
                   themeSettings, themeStorage, themeCall, lastSave, toggleRun>>

\* loadSettings after its await: this.settings is what is stored, and updateForm
\* checks every box as its setting says.
GetSettingsReturns ==
    /\ loadingSettings
    /\ loadingSettings' = FALSE
    /\ panelSettings' = Some(stored)
    /\ boxes' = stored
    /\ UNCHANGED <<settingsConnected, stored, saving, savedBoxes, outsideSettingsPanel>>

\* The user checks or unchecks a box (handleCheckboxChange follows, which only
\* enables and disables text fields).
handleCheckboxChange(id) ==
    /\ settingsConnected
    /\ boxes' = [boxes EXCEPT ![id] = ~@]
    /\ UNCHANGED <<settingsConnected, loadingSettings, panelSettings, stored, saving,
                   savedBoxes, outsideSettingsPanel>>

\* handleSubmit builds newSettings from { ...this.settings } and the FormData of
\* the form: a checked box is in the FormData with the value 'on' and becomes
\* true; an unchecked box is not in the FormData, so its key keeps the value it
\* has in this.settings.
NewSettings(settings_, checked) ==
    [key \in DOMAIN settings_ |-> IF checked[key] THEN TRUE ELSE settings_[key]]

\* handleSubmit of the settings form up to its await, once the settings are
\* loaded: the button is disabled and invoke('update_settings') is sent.
settingsHandleSubmit ==
    /\ settingsConnected
    /\ panelSettings # None
    /\ saving = None
    /\ saving' = Some([settings |-> NewSettings(panelSettings[1], boxes), boxes |-> boxes])
    /\ UNCHANGED <<settingsConnected, loadingSettings, panelSettings, boxes, stored,
                   savedBoxes, outsideSettingsPanel>>

\* handleSubmit after its await, the save done: this.settings = newSettings.
UpdateSettingsReturns ==
    /\ saving # None
    /\ stored' = saving[1].settings
    /\ panelSettings' = Some(saving[1].settings)
    /\ savedBoxes' = Some(saving[1].boxes)
    /\ saving' = None
    /\ UNCHANGED <<settingsConnected, loadingSettings, boxes, outsideSettingsPanel>>

\* handleSubmit after its await, the save rejected: the error is shown and the
\* button enabled again.
UpdateSettingsFails ==
    /\ saving # None
    /\ saving' = None
    /\ UNCHANGED <<settingsConnected, loadingSettings, panelSettings, boxes, stored,
                   savedBoxes, outsideSettingsPanel>>

\* ------------------------------------------- two invocations running at once

\* The response bodies the two concurrent requests are answered with.
ConcurrentBodies ==
    {FrameOf(OpenAiA) \o FrameOf(DashscopeBC), FrameOf(DashscopeBC) \o FrameOf(OpenAiA)}

\* One callback that serves every invocation.
CallbackShared(i) == "first"

\* The progress_callback argument of invocation i: its own closure.
CallbackOf(i) == i

\* generate_with_external_api_stream of invocation i: the client is built and the
\* POST is sent.
RunSend(i) ==
    /\ runs[i].pc = "Idle"
    /\ runs' = [runs EXCEPT ![i].pc = "StreamAwait", ![i].net = "sent"]
    /\ UNCHANGED outsideRuns

\* The send of invocation i fails.
RunSendFails(i) ==
    /\ runs[i].pc = "StreamAwait"
    /\ \E failure \in SendFailures :
        runs' = [runs EXCEPT ![i].pc = "Failed", ![i].net = "send failed",
                             ![i].ret = Err(StreamSendError(failure))]
    /\ UNCHANGED outsideRuns

\* The response head of invocation i arrives.
RunRespond(i) ==
    /\ runs[i].pc = "StreamAwait"
    /\ \E code \in Statuses :
        IF ~IsSuccess(code)
        THEN runs' = [runs EXCEPT ![i].pc = "Failed", ![i].net = "responded",
                        ![i].ret = Err(StreamStatusError(code, get_summary_api_type(settings)))]
        ELSE \E body \in ConcurrentBodies :
                runs' = [runs EXCEPT ![i].pc = "Streaming", ![i].net = "responded",
                                     ![i].wire = body]
    /\ UNCHANGED outsideRuns

\* stream.next() of invocation i yields Ok(bytes).
RunRecvBytes(i) ==
    /\ runs[i].pc = "Streaming"
    /\ runs[i].lines = <<>>
    /\ runs[i].cur = None
    /\ runs[i].wire # <<>>
    /\ \E n \in 1..Len(runs[i].wire) :
        /\ Len(runs[i].received) + 1 < MaxBuffers \/ n = Len(runs[i].wire)
        /\ LET bytes == SubSeq(runs[i].wire, 1, n)
           IN  runs' = [runs EXCEPT ![i].received = Append(@, bytes),
                                    ![i].wire = SubSeq(@, n + 1, Len(@)),
                                    ![i].lines = Lines(bytes),
                                    ![i].net = "chunk"]
    /\ UNCHANGED outsideRuns

\* The body of the for loop of invocation i up to the callback.
RunHandleLine(i) ==
    /\ runs[i].pc = "Streaming"
    /\ runs[i].lines # <<>>
    /\ runs[i].cur = None
    /\ LET delta == DecodeLine(Head(runs[i].lines))
       IN  runs' = [runs EXCEPT ![i].lines = Tail(@),
                                ![i].cur = delta,
                                ![i].result = IF delta # None THEN PushStr(@, delta[1])
                                                              ELSE @]
    /\ UNCHANGED outsideRuns

\* progress_callback(text) of invocation i for the delta just appended.
RunProgressCallback(i) ==
    /\ runs[i].pc = "Streaming"
    /\ runs[i].cur # None
    /\ runs' = [runs EXCEPT ![CallbackOf(i)].sink = Deliver(@, runs[i].cur[1]),
                            ![i].cur = None]
    /\ UNCHANGED outsideRuns

\* stream.next() of invocation i yields Err(e).
RunStreamReadFails(i) ==
    /\ runs[i].pc = "Streaming"
    /\ runs[i].lines = <<>>
    /\ runs[i].cur = None
    /\ runs' = [runs EXCEPT ![i].pc = "Failed", ![i].net = "read failed",
                            ![i].ret = Err("StreamRead")]
    /\ UNCHANGED outsideRuns

\* stream.next() of invocation i yields None: Ok(result) (no doc_dir is set).
RunStreamEnds(i) ==
    /\ runs[i].pc = "Streaming"
    /\ runs[i].lines = <<>>
    /\ runs[i].cur = None
    /\ runs[i].wire = <<>>
    /\ settings.doc_dir = None
    /\ runs' = [runs EXCEPT ![i].pc = "Done", ![i].net = "closed",
                            ![i].ret = Ok(runs[i].result)]
    /\ UNCHANGED outsideRuns

\* --------------------------------------------------------- specifications

EngineBodies == BodiesOf(MaxEngineLines)

StreamBodies == BodiesOf(MaxLines)

\* One invocation of either entry point under any settings.
Next ==
    \/ Invoke
    \/ BuildPromptBlocking
    \/ BuildPromptStream
    \/ SelectProviderBlocking
    \/ SelectProviderStream
    \/ OllamaSend
    \/ OllamaSendFails
    \/ OllamaRespond
    \/ LocalPing
    \/ LocalStreamReturn
    \/ ExternalApiSend
    \/ ExternalApiSendFails
    \/ ExternalApiRespond
    \/ ExternalApiReadFails
    \/ PersistBlocking(Dates)
    \/ ExternalStreamSend
    \/ ExternalStreamSendFails
    \/ ExternalStreamRespond(EngineBodies)
    \/ RecvBytes
    \/ HandleLine
    \/ ProgressCallback
    \/ StreamReadFails
    \/ StreamEnds
    \/ PersistStream

Spec == Init /\ [][Next]_vars

\* One invocation of the streaming entry point with a remote provider.
RemoteStreamSettings == {s \in SettingsSet : ~s.use_local_ollama /\ s.llm_api_url = OpenAiUrl}

InitStream ==
    \E s \in RemoteStreamSettings, c \in {r \in Requests : r.summary_type = "Weekly"} :
        InitWith("stream", s, c)

NextStream ==
    \/ Invoke
    \/ BuildPromptStream
    \/ SelectProviderStream
    \/ ExternalStreamSend
    \/ ExternalStreamSendFails
    \/ ExternalStreamRespond(StreamBodies)
    \/ RecvBytes
    \/ HandleLine
    \/ ProgressCallback
    \/ StreamReadFails
    \/ StreamEnds
    \/ PersistStream

SpecStream == InitStream /\ [][NextStream]_vars

\* One remote streaming invocation whose body is one line of any JSON frame the
\* loop can parse, a truncated frame or the end marker.
DecoderBodies ==
    {FrameOf(m) : m \in JsonMembers \cup MixedMembers} \cup {DoneFrame, TruncatedFrame}

NextDecoder ==
    \/ Invoke
    \/ BuildPromptStream
    \/ SelectProviderStream
    \/ ExternalStreamSend
    \/ ExternalStreamSendFails
    \/ ExternalStreamRespond(DecoderBodies)
    \/ RecvBytes
    \/ HandleLine
    \/ ProgressCallback
    \/ StreamReadFails
    \/ StreamEnds
    \/ PersistStream

SpecDecoder == InitStream /\ [][NextDecoder]_vars

\* One invocation of the blocking entry point with a remote provider whose URL and
\* key are each set or empty.
BlockingRemoteSettings ==
    {[use_local_ollama |-> FALSE, llm_api_url |-> u, llm_api_key |-> k,
      log_output_dir |-> "summaries", doc_dir |-> None] :
        u \in {"", OpenAiUrl}, k \in {"", "sk-key"}}

InitBlockingRemote ==
    \E s \in BlockingRemoteSettings, c \in Requests : InitWith("blocking", s, c)

NextBlockingRemote ==
    \/ Invoke
    \/ BuildPromptBlocking
    \/ SelectProviderBlocking
    \/ ExternalApiSend
    \/ ExternalApiSendFails
    \/ ExternalApiRespond
    \/ ExternalApiReadFails
    \/ PersistBlocking(Dates)

SpecBlockingRemote == InitBlockingRemote /\ [][NextBlockingRemote]_vars

\* One invocation of either entry point with the local provider, for any logs.
LocalSettings == {s \in SettingsSet : s.use_local_ollama /\ s.llm_api_url = "" /\ s.doc_dir = None}

WeeklyRequests == {r \in Requests : r.summary_type = "Weekly"}

InitCorpus ==
    \E m \in Modes, s \in LocalSettings, c \in WeeklyRequests, l \in LogMaps :
        /\ InitEngine(m, s, c, l)
        /\ NoRuns
        /\ PanelConstructed(CustomDate)

NextCorpus ==
    \/ Invoke
    \/ BuildPromptBlocking
    \/ BuildPromptStream
    \/ SelectProviderBlocking
    \/ SelectProviderStream
    \/ OllamaSend
    \/ OllamaSendFails
    \/ OllamaRespond
    \/ LocalPing
    \/ LocalStreamReturn
    \/ PersistBlocking(Dates)

SpecCorpus == InitCorpus /\ [][NextCorpus]_vars

\* Two invocations of the streaming remote call on one generator, their steps
\* interleaved in any way.
InitConcurrent ==
    /\ \E s \in {r \in RemoteStreamSettings : r.doc_dir = None}, c \in WeeklyRequests :
            InitEngine("stream", s, c, EngineLogs)
    /\ NoRuns
    /\ PanelConstructed(CustomDate)

NextConcurrent ==
    \E i \in Invocations :
        \/ RunSend(i)
        \/ RunSendFails(i)
        \/ RunRespond(i)
        \/ RunRecvBytes(i)
        \/ RunHandleLine(i)
        \/ RunProgressCallback(i)
        \/ RunStreamReadFails(i)
        \/ RunStreamEnds(i)

SpecConcurrent == InitConcurrent /\ [][NextConcurrent]_vars

\* The summary panel under any sequence of its events.
InitPanel ==
    /\ \E s \in LocalSettings, c \in WeeklyRequests :
            InitEngine("blocking", s, c, EngineLogs)
    /\ NoRuns
    /\ PanelConstructed(CustomDate)

NextPanel ==
    \/ connectedCallback
    \/ \E value \in 0..3 : handleSummaryTypeChange(value)
    \/ \E id \in {"start-date", "end-date"}, value \in DateEdits : handleDateChange(id, value)
    \/ \E value \in TypedTitles : handleTitleInput(value)
    \/ handleSubmit
    \/ InvokeResolves
    \/ OnGenerationComplete

SpecPanel == InitPanel /\ [][NextPanel]_vars

\* The summary panel, mounted once by the layout, its submits and the events and
\* promise outcomes that reach it in any order.
NextGeneration ==
    \/ connectedCallback
    \/ handleSubmit
    \/ InvokeRejects
    \/ InvokeResolves
    \/ OnGenerationStart
    \/ OnGenerationProcessing
    \/ \E chunk \in ChunkPayloads : OnGenerationChunk(chunk)
    \/ OnGenerationComplete
    \/ OnGenerationError

SpecGeneration == InitPanel /\ [][NextGeneration]_vars

\* The log files panel: clicks on files, deletes and edits, and the answers of
\* the backend in any order.
LogEntryNames == {"fixed a bug", "wrote the docs", "reviewed code"}

NextFilesPanel ==
    \/ filesConnectedCallback
    \/ GetLogFilesReturns
    \/ \E f \in DOMAIN InitialStore : handleFileClick(f)
    \/ \E f \in DOMAIN InitialStore : GetLogEntriesReturns(f)
    \/ \E e \in LogEntryNames : handleDeleteEntry(e)
    \/ \E e \in LogEntryNames : handleEditSubmit(e)
    \/ MutationReturns

SpecFilesPanel == InitPanel /\ [][NextFilesPanel]_vars

\* Two invocations of generate_summary of a kind without dates, on one day, that
\* save at once.
InitJobs ==
    /\ \E s \in LocalSettings,
          c \in {r \in Requests : r.summary_type \in {"Weekly", "Monthly", "Quarterly"}} :
            InitEngine("blocking", s, c, EngineLogs)
    /\ NoRuns
    /\ PanelConstructed(CustomDate)

NextJobs ==
    \E i \in Invocations :
        \/ JobGenerate(i)
        \/ JobCreate(i)
        \/ JobWriteAll(i)

SpecJobs == InitJobs /\ [][NextJobs]_vars

\* The settings panel over any stored settings.
InitSettingsPanel ==
    /\ \E s \in LocalSettings, c \in WeeklyRequests :
            InitEngine("blocking", s, c, EngineLogs)
    /\ NoRuns
    /\ SummaryPanelConstructed(CustomDate)
    /\ FilesPanelConstructed
    /\ \E s \in StoredSettings : SettingsPanelConstructed(s)
    /\ ShellConstructed

NextSettingsPanel ==
    \/ settingsConnectedCallback
    \/ GetSettingsReturns
    \/ \E id \in {"use_local_ollama", "auto_open_window"} : handleCheckboxChange(id)
    \/ settingsHandleSubmit
    \/ UpdateSettingsReturns
    \/ UpdateSettingsFails

SpecSettingsPanel == InitSettingsPanel /\ [][NextSettingsPanel]_vars

\* The same panel instance attached to and detached from the document any number
\* of times.
NextLifecycle ==
    \/ NextGeneration
    \/ disconnectedCallback

SpecLifecycle == InitPanel /\ [][NextLifecycle]_vars

\* The panel opened and a blocking run with the local provider made on any day of
\* the calendar: the dates and names both derive from today.
InitCalendar ==
    /\ \E s \in LocalSettings,
          c \in {r \in Requests : r.summary_type \in {"Weekly", "Quarterly"}} :
            InitEngine("blocking", s, c, EngineLogs)
    /\ NoRuns
    /\ \E d \in CalendarDays : PanelConstructed(d)

NextCalendar ==
    \/ connectedCallback
    \/ \E value \in 0..3 : handleSummaryTypeChange(value)
    \/ Invoke
    \/ BuildPromptBlocking
    \/ SelectProviderBlocking
    \/ OllamaSend
    \/ OllamaSendFails
    \/ OllamaRespond
    \/ PersistBlocking({today})

SpecCalendar == InitCalendar /\ [][NextCalendar]_vars

\* generate_summary called up to MaxCalls times, one call after the other, with
\* the local provider.
InitRerun ==
    \E s \in LocalSettings, c \in {r \in Requests : r.summary_type \in {"Weekly", "Monthly"}} :
        InitWith("blocking", s, c)

NextRerun ==
    \/ Invoke
    \/ InvokeAgain
    \/ BuildPromptBlocking
    \/ SelectProviderBlocking
    \/ OllamaSend
    \/ OllamaSendFails
    \/ OllamaRespond
    \/ PersistBlocking(Dates)

SpecRerun == InitRerun /\ [][NextRerun]_vars

\* ------------------------------------------------------------------ claims

RECURSIVE DeltasOf(_)
\* The deltas of a sequence of lines, in line order.
DeltasOf(ls) == IF ls = <<>> THEN <<>> ELSE DecodeLine(Head(ls)) \o DeltasOf(Tail(ls))

RECURSIVE DecodedFrom(_)
\* The deltas decoded from a sequence of buffers: buffer order, then line order.
DecodedFrom(buffers) ==
    IF buffers = <<>> THEN <<>>
    ELSE DeltasOf(Lines(Head(buffers))) \o DecodedFrom(Tail(buffers))

RemoteStreaming == mode = "stream" /\ branches = <<"remote">>

\* C1: in remote streaming mode the sink holds, in order and each exactly once,
\* the deltas decoded from the buffers received so far: what was delivered, the
\* delta being delivered and the deltas of the lines still to handle make up the
\* deltas of the received buffers in buffer order, then line order.
C1_SinkInDecodeOrder ==
    RemoteStreaming => sink \o cur \o DeltasOf(lines) = DecodedFrom(received)

\* A run that ended well after two buffers, each with a delta of its own.
C1_Witness ==
    /\ pc = "Done"
    /\ RemoteStreaming
    /\ received = <<FrameOf(OpenAiA), FrameOf(DashscopeBC)>>
    /\ sink = <<TextA, TextBC>>

\* C2: in remote streaming mode the accumulated result is the concatenation of the
\* deltas delivered, plus the one delta being delivered if there is one, and the
\* text returned on success is the concatenation of all the deltas delivered.
C2_ResultIsConcatOfSink ==
    RemoteStreaming =>
        /\ result = Concat(sink) \o Concat(cur)
        /\ ret.tag = "Ok" => ret.text = Concat(sink)

\* A successful run that returned the three characters of two deltas.
C2_Witness ==
    /\ RemoteStreaming
    /\ ret = Ok(<<"A", "B", "C">>)
    /\ Len(sink) = 2

\* The provider call of the run failed: the send failed, the response had a status
\* that is no success, or reading the response failed.
ProviderFailed ==
    \/ net \in {"send failed", "read failed"}
    \/ status # 0 /\ ~IsSuccess(status)

\* C3: when the provider call fails, the invocation has returned an error, no file
\* was written and no text was returned as a success.
C3_ProviderFailureIsAnError ==
    ProviderFailed =>
        /\ pc = "Failed"
        /\ ret.tag = "Err"
        /\ writes = <<>>
        /\ files = NoFiles

\* A read error in the middle of the stream, after a delta reached the sink.
C3_Witness ==
    /\ net = "read failed"
    /\ RemoteStreaming
    /\ sink # <<>>
    /\ wire # <<>>
    /\ pc = "Failed"

MissingCustomDates ==
    /\ config.summary_type = "Custom"
    /\ config.start_date = None \/ config.end_date = None

\* C4: a Custom request without start_date or end_date fails with InvalidRequest
\* before any HTTP request is sent and before any file is written.
C4_CustomWithoutDatesIsRejected ==
    MissingCustomDates =>
        /\ requests = <<>>
        /\ writes = <<>>
        /\ pc \in {"Done", "Failed"} => ret = Err("InvalidRequest")

\* C5: a successful run has written its text exactly once, to the file named by
\* get_summary_filename under the output directory, and the returned text is the
\* content of that file.
C5_SuccessWritesNamedFileOnce ==
    ret.tag = "Ok" =>
        /\ Len(writes) = 1
        /\ \E now \in Dates :
            LET path == JoinPath(settings.log_output_dir, get_summary_filename(config, now))
            IN  /\ writes[1].path = path
                /\ path \in DOMAIN files
                /\ files[path] = ret.text

\* The state of the engine the invocation is in.
EngineState(p) ==
    CASE p = "Idle" -> "Idle"
      [] p \in {"BuildingPrompt", "SelectProvider"} -> "BuildingPrompt"
      [] p \in {"LocalSend", "LocalAwait", "LocalPing", "RemoteSend", "RemoteAwait",
                "StreamSend", "StreamAwait"} -> "Invoking"
      [] p = "Streaming" -> "Streaming"
      [] p = "Persisting" -> "Persisting"
      [] p = "Done" -> "Done"
      [] p = "Failed" -> "Failed"

EngineOrder ==
    {<<"Idle", "BuildingPrompt">>, <<"BuildingPrompt", "Invoking">>,
     <<"Invoking", "Streaming">>, <<"Invoking", "Persisting">>,
     <<"Streaming", "Persisting">>, <<"Persisting", "Done">>}
    \cup {<<a, "Failed">> : a \in {"Idle", "BuildingPrompt", "Invoking", "Streaming",
                                   "Persisting"}}

\* C6: every step keeps the engine state or moves it along Idle, BuildingPrompt,
\* Invoking, (Streaming), Persisting, Done, or to Failed from a state that is not
\* terminal; Persisting is entered only when the provider call has succeeded; and in
\* Done and Failed no request is sent, no delta delivered and no file written.
C6_EngineStateOrder ==
    [][LET a == EngineState(pc)
           b == EngineState(pc')
       IN  /\ a # b => <<a, b>> \in EngineOrder
           /\ (a # b /\ b = "Persisting") => IsSuccess(status') /\ ~ProviderFailed'
           /\ a \in {"Done", "Failed"} => UNCHANGED <<requests, sink, writes, files>>]_vars

\* The text of a line that is a whole frame of one of the two content shapes.
FrameText(line) ==
    IF line = <<DataPrefix, OpenBrace, OpenAiA, CloseBrace>> THEN <<TextA>>
    ELSE IF line = <<DataPrefix, OpenBrace, DashscopeBC, CloseBrace>> THEN <<TextBC>>
    ELSE <<>>

RECURSIVE FrameTexts(_)
FrameTexts(ls) == IF ls = <<>> THEN <<>> ELSE FrameText(Head(ls)) \o FrameTexts(Tail(ls))

RECURSIVE ValidTextsFrom(_)
\* The texts of the whole content frames among the lines of the buffers.
ValidTextsFrom(buffers) ==
    IF buffers = <<>> THEN <<>>
    ELSE FrameTexts(Lines(Head(buffers))) \o ValidTextsFrom(Tail(buffers))

\* A data line that is neither the end marker nor a whole frame of a content shape:
\* its payload is no valid JSON or matches neither shape.
Unrecognised(line) ==
    /\ line # <<>>
    /\ Head(line) = DataPrefix
    /\ Tail(line) # <<DoneMarker>>
    /\ FrameText(line) = <<>>

\* The loop is about to handle this line.
Handling(line) == pc = "Streaming" /\ lines # <<>> /\ cur = None /\ Head(lines) = line

\* The step handled a line without a delta and without an error, and went on.
SkippedLine ==
    /\ pc' = "Streaming"
    /\ ret' = ret
    /\ sink' = sink
    /\ result' = result
    /\ cur' = None
    /\ lines' = Tail(lines)
    /\ wire' = wire

\* C7: handling a data line whose payload is no valid JSON or matches neither
\* shape delivers nothing, returns nothing and leaves the rest of the chunk and of
\* the body to be handled; and when the stream has ended the sink holds the texts
\* of all the whole content frames received, those after such a line included.
C7_MalformedLineIsSkipped ==
    [][/\ (RemoteStreaming /\ pc = "Streaming" /\ lines # <<>> /\ cur = None
              /\ Unrecognised(Head(lines))) => SkippedLine
       /\ (RemoteStreaming /\ pc' \in {"Persisting", "Done"}) =>
              sink' = ValidTextsFrom(received')]_vars

\* A truncated frame and a frame of another shape, then a valid frame, in one
\* buffer: the run ended well and the valid frame was delivered.
C7_Witness ==
    /\ pc = "Done"
    /\ RemoteStreaming
    /\ received \in {<<TruncatedFrame \o FrameOf(OpenAiA)>>,
                     <<FrameOf(OtherShape) \o FrameOf(OpenAiA)>>}
    /\ sink = <<TextA>>
    /\ ret = Ok(TextA)

\* C8: handling the [DONE] line delivers nothing and does not end the stream; the
\* loop is left for saving or returning only when the body is closed, with nothing
\* left to handle and the texts of all the whole content frames received, those
\* after [DONE] included, delivered and returned.
C8_DoneMarkerIsNoEnd ==
    [][/\ (RemoteStreaming /\ Handling(<<DataPrefix, DoneMarker>>)) => SkippedLine
       /\ (RemoteStreaming /\ pc = "Streaming" /\ pc' \in {"Persisting", "Done"}) =>
              /\ net' = "closed"
              /\ wire = <<>> /\ lines = <<>> /\ cur = None
              /\ sink' = ValidTextsFrom(received')
              /\ result' = Concat(sink')]_vars

\* [DONE] and then a content frame: the frame was delivered and returned.
C8_Witness ==
    /\ pc = "Done"
    /\ RemoteStreaming
    /\ received = <<DoneFrame, FrameOf(DashscopeBC)>>
    /\ sink = <<TextBC>>
    /\ ret = Ok(TextBC)

\* The deltas of a body that arrives whole in one buffer.
WholeBodyDeltas == DeltasOf(Lines(Concat(received)))

\* C9: however the response body is cut into buffers, the deltas delivered and the
\* text returned are those of the body arriving whole in one buffer.
C9_SplitsDoNotMatter ==
    (RemoteStreaming /\ ret.tag = "Ok") =>
        /\ sink = WholeBodyDeltas
        /\ ret.text = Concat(WholeBodyDeltas)

\* The provider branch the settings select.
SelectedBranch == IF settings.use_local_ollama THEN "local" ELSE "remote"

\* C10: before the provider step no branch was called and no request sent; from
\* the provider step on exactly one branch was called, the local one if and only
\* if use_local_ollama is set, whichever entry point was called, and every request
\* went to the endpoint of that branch.
C10_ExactlyOneBranch ==
    IF pc \in {"Idle", "BuildingPrompt", "SelectProvider"}
    THEN branches = <<>> /\ requests = <<>>
    ELSE /\ branches = <<SelectedBranch>>
         /\ \A i \in 1..Len(requests) : requests[i] = SelectedBranch

\* A blocking run with the local provider that sent its request to the local
\* endpoint and ended well.
C10_Witness ==
    /\ pc = "Done"
    /\ mode = "blocking"
    /\ settings.use_local_ollama
    /\ branches = <<"local">>
    /\ requests = <<"local">>

\* ---------------------------------------------------------------------------
\* Local streaming, failures by status, repeated requests
\* ---------------------------------------------------------------------------

LocalStreaming == mode = "stream" /\ branches = <<"local">>

LocalStatusStrings == {LocalStartStatus} \cup {LocalSegments[i] : i \in DOMAIN LocalSegments}

\* C11: in local mode with streaming requested every string handed to the sink is
\* one of the fixed status strings, never the generated text or a piece of it, and
\* the text returned is the response field of the endpoint's body as it arrived.
C11_LocalSinkIsStatusOnly ==
    LocalStreaming =>
        /\ \A i \in DOMAIN sink :
              /\ sink[i] \in LocalStatusStrings
              /\ sink[i] \notin Texts
              /\ \A t \in Texts : \A k \in DOMAIN t : sink[i] # <<t[k]>>
        /\ ret.tag = "Ok" => /\ Len(received) = 1
                             /\ ret.text = received[1]
                             /\ ret.text \in Texts

C11_Witness ==
    /\ LocalStreaming
    /\ ret.tag = "Ok"
    /\ ret.text = TextBC
    /\ Len(sink) = 1 + Len(LocalSegments)

\* The error the claim names for a status that is no success.
ClaimedStatusError(code, dashscope) ==
    CASE code = 401 -> "AuthFailed"
      [] code = 403 -> "Forbidden"
      [] code = 404 -> IF dashscope THEN "NotFoundDashscope" ELSE "NotFound"
      [] code = 429 -> "RateLimited"
      [] code >= 500 -> "ServerUnavailable"
      [] OTHER -> "Generic"

RemoteStatusFailure ==
    /\ branches = <<"remote">>
    /\ net = "responded"
    /\ ~IsSuccess(status)

\* C12: whenever the remote endpoint answers with a status that is no success, the
\* error returned is the one its status code selects: 401 AuthFailed, 403
\* Forbidden, 404 NotFound (the Dashscope hint exactly for the Dashscope dialect),
\* 429 RateLimited, 500 and above ServerUnavailable, anything else Generic.
C12_StatusSelectsError ==
    RemoteStatusFailure =>
        /\ pc = "Failed"
        /\ ret = Err(ClaimedStatusError(status, settings.llm_api_url = DashscopeUrl))

\* The same for the streaming entry point alone.
C12_StreamStatusSelectsError == mode = "stream" => C12_StatusSelectsError

\* C17: an invocation sends at most one HTTP request to the provider; once the
\* provider call has failed no further request is sent, and the failure is what
\* the caller gets.
C17_AtMostOneRequest ==
    /\ [](Len(requests) <= 1)
    /\ [](ProviderFailed => /\ Len(requests) = 1
                            /\ pc = "Failed"
                            /\ ret.tag = "Err")
    /\ [][ProviderFailed => requests' = requests]_vars

\* The send of the streaming request failed for a Dashscope endpoint.
C17_Witness ==
    /\ net = "send failed"
    /\ mode = "stream"
    /\ requests = <<"remote">>
    /\ settings.llm_api_url = DashscopeUrl
    /\ ret = Err("Timeout")

\* ---------------------------------------------------------------------------
\* The corpus
\* ---------------------------------------------------------------------------

\* The dates of the "## <date>" lines of a corpus, in the order of the lines.
HeaderDates(content) ==
    LET headers == SelectSeq(content, LAMBDA line : Len(line) = 2 /\ line[1] = "## ")
    IN  [i \in DOMAIN headers |-> headers[i][2]]

\* A formatted date is not after another one.
NotAfter(a, b) ==
    \/ a[1] < b[1]
    \/ a[1] = b[1] /\ a[3] < b[3]
    \/ a[1] = b[1] /\ a[3] = b[3] /\ a[5] <= b[5]

\* C13: whatever the logs and the order in which the mapping is iterated, the
\* "## <date>" headers of the corpus sent to the provider are in non-decreasing
\* chronological order.
C13_HeadersInDateOrder ==
    requests # <<>> =>
        LET dates == HeaderDates(logs_content)
        IN  \A i, j \in DOMAIN dates : i < j => NotAfter(dates[i], dates[j])

\* ---------------------------------------------------------------------------
\* Saving the result
\* ---------------------------------------------------------------------------

DiskFailed == disk \in {"create_dir_all fails", "write fails"}

\* C14: when creating the parent directories or writing the output file fails,
\* the invocation returns an IoError and not the generated text, in the blocking
\* and in the streaming path, although the provider call succeeded and the sink
\* already has every delta.
C14_IoFailureIsIoError ==
    DiskFailed =>
        /\ pc = "Failed"
        /\ ret = Err("IoError")
        /\ IsSuccess(status)
        /\ writes = <<>>
        /\ mode = "stream" => /\ wire = <<>>
                              /\ sink = DecodedFrom(received)

\* The write of the streaming path fails after a delta was delivered.
C14_Witness ==
    /\ disk = "write fails"
    /\ mode = "stream"
    /\ sink = <<TextA>>
    /\ ret = Err("IoError")

\* ---------------------------------------------------------------------------
\* Two invocations at once
\* ---------------------------------------------------------------------------

\* What invocation i has decoded so far is what its own sink, the delta it is
\* delivering and the lines it still has to handle hold, in that order.
OwnDeltasOnly(i) ==
    runs[i].sink \o runs[i].cur \o DeltasOf(runs[i].lines) = DecodedFrom(runs[i].received)

\* C15: with two invocations running at once and their buffers arriving in any
\* interleaving, the sink of each receives only the deltas of its own response
\* stream in that stream's order, the text each returns is the concatenation of
\* its own deltas, and no step changes the settings.
C15_InvocationsAreIsolated ==
    /\ [](\A i \in Invocations :
            /\ OwnDeltasOnly(i)
            /\ runs[i].ret.tag = "Ok" =>
                    runs[i].ret.text = Concat(DecodedFrom(runs[i].received)))
    /\ [][settings' = settings]_vars

\* Both invocations returned, with different texts, each after two buffers.
C15_Witness ==
    /\ runs["first"].ret = Ok(<<"A", "B", "C">>)
    /\ runs["second"].ret = Ok(<<"B", "C", "A">>)
    /\ Len(runs["first"].received) = 2
    /\ Len(runs["second"].received) = 2

\* ---------------------------------------------------------------------------
\* The summary panel
\* ---------------------------------------------------------------------------

\* C16: in every request the panel sends, startDate and endDate are there if and
\* only if the kind is custom, after any kind changes and date edits.
C16_DatesSentIffCustom ==
    invoked # None =>
        /\ invoked[1].startDate # None <=> invoked[1].summaryType = "custom"
        /\ invoked[1].endDate # None <=> invoked[1].summaryType = "custom"

\* A monthly request sent after the dates were edited under the custom kind.
C16_Witness ==
    /\ invoked # None
    /\ invoked[1].summaryType = "monthly"
    /\ invoked[1].startDate = None
    /\ startDate \in DateEdits
    /\ endDate = <<>>

\* ---------------------------------------------------------------------------
\* Dates and quarters
\* ---------------------------------------------------------------------------

\* The date a formatted date stands for.
DateOfText(text) == [year |-> text[1], month |-> text[3], day |-> text[5]]

RECURSIVE DaysBeforeYear(_)
\* The days from 1 January 2022 to the start of year y.
DaysBeforeYear(y) ==
    IF y <= 2022 THEN 0
    ELSE DaysBeforeYear(y - 1) + (IF IsLeapYear(y - 1) THEN 366 ELSE 365)

RECURSIVE DaysBeforeMonth(_, _)
\* The days of year y before its month m.
DaysBeforeMonth(y, m) ==
    IF m = 1 THEN 0 ELSE DaysBeforeMonth(y, m - 1) + DaysInMonth(y, m - 1)

\* The number of a day, counted from 1 January 2022.
DayNumber(d) == DaysBeforeYear(d.year) + DaysBeforeMonth(d.year, d.month) + d.day

\* C18: on any date the weekly range of the panel runs from today minus 6 days
\* through today, 7 calendar days in all, also across the ends of months and
\* years, and the name of the weekly file carries today's date.
C18_WeeklyRangeIsSevenDays ==
    /\ connected =>
            /\ DateOfText(endDate) = today
            /\ DayNumber(DateOfText(startDate)) = DayNumber(today) - 6
            /\ DayNumber(DateOfText(endDate)) - DayNumber(DateOfText(startDate)) + 1 = 7
    /\ (pc = "Done" /\ config.summary_type = "Weekly") =>
            writes[1].path =
                JoinPath(settings.log_output_dir,
                         <<"weekly_summary_", <<today.year, "-", today.month, "-", today.day>>,
                           ".md">>)

\* The parts of C18 the code has: the range ends today and the file is named by
\* today; it starts 7 days before today.
C18_RangeEndsToday ==
    /\ connected =>
            /\ DateOfText(endDate) = today
            /\ DayNumber(DateOfText(startDate)) = DayNumber(today) - 7
    /\ (pc = "Done" /\ config.summary_type = "Weekly") =>
            writes[1].path =
                JoinPath(settings.log_output_dir,
                         <<"weekly_summary_", <<today.year, "-", today.month, "-", today.day>>,
                           ".md">>)

\* q is the quarter of month: the months 3q-2, 3q-1 and 3q.
IsQuarterOf(q, month) == q \in 1..4 /\ 3 * (q - 1) < month /\ month <= 3 * q

\* C19: for every month the quarter in the name of the quarterly file is one of
\* 1..4 and is floor((month-1)/3)+1, and the quarter the panel puts into the
\* title, computed from the 0-based month, is the same one for that month.
C19_QuartersAgree ==
    /\ (pc = "Done" /\ config.summary_type = "Quarterly") =>
            \E q \in 1..4 :
                /\ IsQuarterOf(q, today.month)
                /\ q = (today.month - 1) \div 3 + 1
                /\ writes[1].path = JoinPath(settings.log_output_dir,
                                        <<"quarterly_summary_", today.year, "-Q", q, ".md">>)
    /\ (connected /\ summaryType = 2) =>
            \E west \in BOOLEAN :
                LET date == NewDate(startDate, west)
                IN  /\ summaryTitle[1] = "quarterly report"
                    /\ summaryTitle[2] = date.year
                    /\ IsQuarterOf(summaryTitle[3], date.month)
                    /\ get_summary_filename([summary_type |-> "Quarterly"], date)[4]
                            = summaryTitle[3]

\* December: the file of the fourth quarter is written and the title of the panel
\* names a fourth quarter.
C19_Witness ==
    /\ pc = "Done"
    /\ config.summary_type = "Quarterly"
    /\ today.month = 12
    /\ connected
    /\ summaryType = 2
    /\ summaryTitle[3] = 4

\* ---------------------------------------------------------------------------
\* Repeated writes
\* ---------------------------------------------------------------------------

RECURSIVE LastWrittenTo(_, _)
\* The text of the last of the writes ws that went to path (ws has one).
LastWrittenTo(path, ws) ==
    IF ws[Len(ws)].path = path THEN ws[Len(ws)].text
    ELSE LastWrittenTo(path, SubSeq(ws, 1, Len(ws) - 1))

\* C20: after any sequence of writes the content of a file is the text of the
\* last write to its path, so that a run leaves the file equal to its text, also
\* when the same text went to the same path before: a write replaces, it does
\* not append.
C20_LastWriteWins ==
    /\ DOMAIN files = {writes[k].path : k \in DOMAIN writes}
    /\ \A path \in DOMAIN files : files[path] = LastWrittenTo(path, writes)
    /\ pc = "Done" => files[writes[Len(writes)].path] = ret.text

\* The same text was written to the same path by two runs.
C20_Witness ==
    /\ pc = "Done"
    /\ calls = 2
    /\ Len(writes) = 2
    /\ writes[1] = writes[2]

\* ---------------------------------------------------------------------------
\* Failures of the send
\* ---------------------------------------------------------------------------

\* The class of an error of the send: the blocking path returns a failure that is
\* neither a timeout nor a connection failure as the wrapped reqwest error.
SendErrorClass(kind) == IF kind = "ReqwestError" THEN "Transport" ELSE kind

\* C21: a failure of the send of the remote request is classified before it is
\* returned: a timeout is Timeout, also when it is a connection failure as well, a
\* connection failure that is no timeout is ConnectFailed, anything else is
\* Transport.
C21_SendFailureIsClassified ==
    (branches = <<"remote">> /\ send_error # None) =>
        /\ pc = "Failed"
        /\ ret.tag = "Err"
        /\ LET e == send_error[1]
               class == SendErrorClass(ret.kind)
           IN  /\ e.is_timeout => class = "Timeout"
               /\ (~e.is_timeout /\ e.is_connect) => class = "ConnectFailed"
               /\ (~e.is_timeout /\ ~e.is_connect) => class = "Transport"

\* The send of the streaming request fails with a timeout of the connection.
C21_Witness ==
    /\ mode = "stream"
    /\ branches = <<"remote">>
    /\ send_error = Some([is_timeout |-> TRUE, is_connect |-> TRUE])
    /\ ret = Err("Timeout")

\* The JSON value of a data line, as an Option: None for a line that is no data
\* line, for the end marker and for a payload that does not parse.
ParsedFrame(line) ==
    IF line # <<>> /\ Head(line) = DataPrefix /\ Tail(line) # <<DoneMarker>>
    THEN ParseJson(Tail(line))
    ELSE None

\* The strings found at choices[0].delta.content and at output.choices[0].text.
StringsFound(json) ==
    {t \in {TextA, TextBC} : json.content = Some(t) \/ json.text = Some(t)}

\* C22: handling a data line whose JSON parses yields exactly one delta, carrying
\* a string found at choices[0].delta.content or at output.choices[0].text, when
\* there is such a string, and no delta when there is none; the delta is handed
\* to the sink once.
C22_OneDeltaPerContentFrame ==
    [][/\ (RemoteStreaming /\ pc = "Streaming" /\ lines # <<>> /\ cur = None
              /\ ParsedFrame(Head(lines)) # None) =>
              LET found == StringsFound(ParsedFrame(Head(lines))[1])
              IN  /\ sink' = sink
                  /\ found # {} => (cur' # None /\ cur'[1] \in found)
                  /\ found = {} => cur' = None
       /\ (RemoteStreaming /\ pc = "Streaming" /\ cur # None) =>
              (sink' = Append(sink, cur[1]) /\ cur' = None)]_vars

\* The same for the frames that have one of the two keys at the top level, or
\* neither: the frames of the OpenAI shape and of the Dashscope shape.
C22_OneShapeFrames ==
    [][(RemoteStreaming /\ pc = "Streaming" /\ lines # <<>> /\ cur = None
          /\ ParsedFrame(Head(lines)) # None
          /\ ~(ParsedFrame(Head(lines))[1].hasChoices
                  /\ ParsedFrame(Head(lines))[1].hasOutput)) =>
          LET found == StringsFound(ParsedFrame(Head(lines))[1])
          IN  /\ found # {} => (cur' # None /\ cur'[1] \in found)
              /\ found = {} => cur' = None]_vars

\* The stream ended after a frame with a Dashscope text and an empty "choices"
\* array, and nothing was delivered.
C22_TextNotDelivered ==
    /\ RemoteStreaming
    /\ pc = "Done"
    /\ received = <<FrameOf(EmptyChoicesAndOutput)>>
    /\ sink = <<>>

\* C23: once the run has written its output file or has returned a result or an
\* error the sink receives nothing more, and the step that writes the file or
\* returns hands nothing to the sink either.
C23_CallbacksBeforePersistAndReturn ==
    [][/\ (pc \in {"Done", "Failed"} \/ writes # <<>>) => sink' = sink
       /\ (writes' # writes \/ ret' # ret) => sink' = sink]_vars

\* A streaming run that delivered a delta, saved the text and returned it.
C23_Witness ==
    /\ RemoteStreaming
    /\ pc = "Done"
    /\ sink = <<TextA>>
    /\ Len(writes) = 1
    /\ writes[1].text = TextA
    /\ ret = Ok(TextA)

\* ---------------------------------------------------------------------------
\* The content of the corpus
\* ---------------------------------------------------------------------------

HeaderLine(date) == <<"## ", FormatDate(date)>>

IsBulletLine(line) == Len(line) = 2 /\ line[1] = "- "

HeaderPositions(content, date) == {i \in DOMAIN content : content[i] = HeaderLine(date)}

\* C25: the corpus built from the logs has, for every date of the mapping, exactly
\* one "## <date>" line, followed by one "- <content>" line per entry of the date
\* in storage order and then by the empty line that ends the section (so a date
\* without entries has its header and no bullet); there is no other header and no
\* bullet line outside these sections.
C25_CorpusHoldsEveryEntryOnce ==
    prompt # None =>
        /\ \A d \in DOMAIN logs :
              /\ Cardinality(HeaderPositions(logs_content, d)) = 1
              /\ LET i == CHOOSE p \in HeaderPositions(logs_content, d) : TRUE
                     n == Len(logs[d])
                 IN  /\ i + n + 1 <= Len(logs_content)
                     /\ \A k \in 1..n : logs_content[i + k] = <<"- ", logs[d][k]>>
                     /\ logs_content[i + n + 1] = <<"">>
        /\ Len(HeaderDates(logs_content)) = Cardinality(DOMAIN logs)
        /\ \A j \in DOMAIN logs_content :
              IsBulletLine(logs_content[j]) =>
                  \E d \in DOMAIN logs :
                      \E i \in HeaderPositions(logs_content, d) :
                          i < j /\ j <= i + Len(logs[d])

\* A corpus of a date without entries and a date with two entries was sent to the
\* provider.
C25_Witness ==
    /\ requests # <<>>
    /\ \E d, e \in DOMAIN logs :
          /\ logs[d] = <<>>
          /\ logs[e] = <<"fixed a bug", "wrote the docs">>
          /\ \E i \in DOMAIN logs_content :
                /\ logs_content[i] = HeaderLine(d)
                /\ logs_content[i + 1] = <<"">>

\* ---------------------------------------------------------------------------
\* A remote provider that is not configured
\* ---------------------------------------------------------------------------

NotConfigured == settings.llm_api_url = "" \/ settings.llm_api_key = ""

\* C30: in the blocking remote path with an empty URL or an empty key no request
\* is ever sent and no file is ever written, and once the provider has been
\* called the invocation has failed.
C30_NotConfiguredFailsBeforeSend ==
    (mode = "blocking" /\ ~settings.use_local_ollama /\ NotConfigured) =>
        /\ requests = <<>>
        /\ net = "idle"
        /\ writes = <<>>
        /\ files = NoFiles
        /\ pc \in {"Idle", "BuildingPrompt", "SelectProvider", "RemoteSend", "Failed"}
        /\ pc = "Failed" => ret = Err("NotConfigured")

\* The call failed with a URL and without a key.
C30_Witness ==
    /\ mode = "blocking"
    /\ branches = <<"remote">>
    /\ settings.llm_api_url = OpenAiUrl
    /\ settings.llm_api_key = ""
    /\ pc = "Failed"
    /\ ret = Err("NotConfigured")
    /\ requests = <<>>

\* ---------------------------------------------------------------------------
\* The summary panel and the generation events
\* ---------------------------------------------------------------------------

\* C24: once a start event was handled, currentSummary is the concatenation, in
\* arrival order, of the chunk payloads handled since the latest start event: an
\* empty payload adds nothing and a start event makes it empty again.
C24_TextIsChunksSinceStart ==
    started => currentSummary = Concat(chunks)

\* A chunk, an empty chunk and another chunk were handled after a start event.
C24_Witness ==
    /\ started
    /\ chunks = <<TextA, <<>>, TextBC>>
    /\ currentSummary = <<"A", "B", "C">>

C29_HandlersOnceAndNoneWhenDetached ==
    [][/\ handlers <= 1
       /\ \A chunk \in ChunkPayloads :
             (chunks' = Append(chunks, chunk)) => currentSummary' = currentSummary \o chunk
       /\ ~connected' => handlers' = 0]_vars

\* The part of C29 about the number of registrations alone.
C29_HandlersRegisteredOnce ==
    [][/\ handlers <= 1
       /\ \A chunk \in ChunkPayloads :
             (chunks' = Append(chunks, chunk)) => currentSummary' = currentSummary \o chunk]_vars

\* The instance is detached and its handlers are still registered.
C29_HandlersLeftAfterDisconnect ==
    /\ ~connected
    /\ handlers = 1
    /\ eventListenersActive

\* ---------------------------------------------------------------------------
\* The log files panel
\* ---------------------------------------------------------------------------

\* C26: when no call of the panel is awaited any more, the entries shown are the
\* entries of the file named by currentFile.
C26_ShownEntriesAreOfCurrentFile ==
    (filesConnected /\ InFlight = 0 /\ currentFile # None) =>
        logEntries = store[currentFile[1]]

\* Every answer has arrived, the second file is the current one and the entries
\* of the first file are shown.
C26_StaleEntriesShown ==
    /\ InFlight = 0
    /\ currentFile = Some("2024-12-31.json")
    /\ logEntries = <<"fixed a bug", "wrote the docs">>
    /\ store = InitialStore

\* ---------------------------------------------------------------------------
\* The settings panel
\* ---------------------------------------------------------------------------

\* C27: after a successful save the stored use_local_ollama and auto_open_window
\* are the checked states the two boxes had at the submit.
C27_SavedAsChecked ==
    savedBoxes # None =>
        /\ stored.use_local_ollama = savedBoxes[1].use_local_ollama
        /\ stored.auto_open_window = savedBoxes[1].auto_open_window

\* The part of C27 that is about checked boxes: a box checked at the submit is
\* stored as true.
C27_CheckedIsSavedTrue ==
    savedBoxes # None =>
        /\ savedBoxes[1].use_local_ollama => stored.use_local_ollama
        /\ savedBoxes[1].auto_open_window => stored.auto_open_window

\* A save succeeded with use_local_ollama unchecked at the submit, and the stored
\* value is still true.
C27_UncheckedStaysTrue ==
    /\ savedBoxes # None
    /\ ~savedBoxes[1].use_local_ollama
    /\ stored.use_local_ollama
    /\ saving = None

\* ---------------------------------------------------------------------------
\* Two runs that save to one path
\* ---------------------------------------------------------------------------

BothJobsDone == \A i \in Invocations : jobs[i].pc = "Done"

\* C31: when both runs have completed, the file at their common path holds the
\* whole text of the run that wrote last and nothing else, and each run has
\* returned its own text.
C31_FileIsTextOfLastWriter ==
    BothJobsDone =>
        /\ files[JobPath] = jobs[wrote[Len(wrote)]].summary
        /\ \A i \in Invocations : jobs[i].ret = Ok(jobs[i].summary)

\* The part of C31 about the returned values: each run returns its own text.
C31_EachReturnsItsOwnText ==
    \A i \in Invocations : jobs[i].pc = "Done" => jobs[i].ret = Ok(jobs[i].summary)

\* Both runs are done and the file holds the start of one text and the end of
\* the other.
C31_MixedFile ==
    /\ BothJobsDone
    /\ jobs["first"].summary = TextBC
    /\ jobs["second"].summary = TextA
    /\ files[JobPath] = <<"A", "C">>

\* ---------------------------------------------- the theme and its listeners

\* The theme manager over anything localStorage may hold and either preference
\* of the system, with the layout and the settings panel not yet in the document.
InitTheme ==
    /\ \E s \in LocalSettings, c \in WeeklyRequests :
            InitEngine("blocking", s, c, EngineLogs)
    /\ NoRuns
    /\ SummaryPanelConstructed(CustomDate)
    /\ FilesPanelConstructed
    /\ SettingsPanelConstructed(Unchecked)
    /\ \E savedSettings \in {None} \cup {Some(t) : t \in ThemeSettings},
          prefersDark \in BOOLEAN :
            ThemeConstructed(savedSettings, prefersDark)
    /\ LayoutConstructed

NextTheme_ ==
    \/ layoutConnectedCallback
    \/ layoutDisconnectedCallback
    \/ settingsConnectedCallback
    \/ settingsDisconnectedCallback
    \/ \E m \in ThemeMode : setThemeMode(m)
    \/ \E z \in FontSize : setFontSize(z)
    \/ toggleTheme

SpecTheme == InitTheme /\ [][NextTheme_]_vars

\* How many times x is an element of the sequence s.
Occurrences(s, x) == Cardinality({i \in DOMAIN s : s[i] = x})

\* C32: the listener of the layout and the listener of the settings panel are each
\* in the listener list of the theme manager exactly once while their component
\* is connected and not at all while it is not; the latest setThemeMode or
\* setFontSize call, if it changed the value, called each listener registered at
\* the time exactly once, and if it was given the current value it called no
\* listener and saved nothing.
C32_ListenersOnceAndNotifiedOnce ==
    /\ Occurrences(themeChangeListeners, "main-layout") =
            (IF layoutConnected THEN 1 ELSE 0)
    /\ Occurrences(themeChangeListeners, "settings-panel") =
            (IF settingsConnected THEN 1 ELSE 0)
    /\ themeCall.changed =>
            \A l \in {"main-layout", "settings-panel"} :
                Occurrences(themeCall.notified, l) = Occurrences(themeCall.listeners, l)
    /\ ~themeCall.changed => themeCall.notified = <<>> /\ themeCall.saves = 0

\* Both components are connected, and the latest call changed the value and
\* called the two listeners.
C32_Witness ==
    /\ layoutConnected
    /\ settingsConnected
    /\ themeCall.changed
    /\ Len(themeCall.notified) = 2

\* A component was connected, disconnected and connected again, and a call with
\* the current value followed.
C32_WitnessUnchanged ==
    /\ Len(themeChangeListeners) = 2
    /\ themeChangeListeners[1] = "settings-panel"
    /\ ~themeCall.changed
    /\ Len(themeCall.listeners) = 2

\* ------------------------------------------------------------ the active page

\* The layout attached to and detached from the document, the clicks on its
\* navigation items and buttons, and navigate events with any payload.
NextNavigation ==
    \/ layoutConnectedCallback
    \/ layoutDisconnectedCallback
    \/ \E page \in Pages : handleNavClick(page)
    \/ \E page \in NavigatePayloads : navigateTo(page)
    \/ handleThemeToggle
    \/ \E z \in FontSize : FontSizeClick(z)

SpecNavigation == InitTheme /\ [][NextNavigation]_vars

C33_ActiveIsShown ==
    (rendered /\ activePage \in Pages) =>
        (panelActive = {activePage} /\ navActive = {activePage})

C33_WitnessNoSuchPage ==
    /\ rendered
    /\ activePage = "about"
    /\ panelActive = {}
    /\ navActive = {}

\* ------------------------------------------------------------ the theme cycle

\* The cycle dark, light, neutral, dark.
CycleSuccessor(m) ==
    CASE m = "dark" -> "light"
      [] m = "light" -> "neutral"
      [] m = "neutral" -> "dark"

\* Every toggle moved the mode one step along the cycle, and so changed it, and
\* three toggles in a row brought back the mode they started from.
TogglesFollowCycle ==
    /\ toggleRun # <<>> =>
            /\ themeSettings.mode = CycleSuccessor(toggleRun[Len(toggleRun)])
            /\ themeSettings.mode # toggleRun[Len(toggleRun)]
    /\ \A i \in 1..(Len(toggleRun) - 1) : toggleRun[i + 1] = CycleSuccessor(toggleRun[i])
    /\ Len(toggleRun) = 3 => themeSettings.mode = toggleRun[1]

\* The item of localStorage holds the mode of the theme manager.
ModeIsPersisted ==
    /\ themeStorage # None
    /\ themeStorage[1].mode = themeSettings.mode

C34_NothingPersisted ==
    /\ themeCall.made
    /\ themeStorage = None

\* The latest toggle changed the mode and localStorage holds the mode before it.
C34_StaleAfterFailedSave ==
    /\ toggleRun # <<>>
    /\ themeStorage # None
    /\ themeStorage[1].mode = toggleRun[Len(toggleRun)]
====
